---- MODULE Spec2Model ----
(***************************************************************************)
(* Model of scout's guarded page fetch: the static host classifier, the    *)
(* DNS pre-check (ssrf_check), the download through the shared HTTP        *)
(* client, the post-redirect re-check and the extraction step of           *)
(* fetch_page (src/src/fetch/mod.rs, src/src/fetch/ssrf.rs).               *)
(***************************************************************************)
EXTENDS Integers, Sequences, FiniteSets, TLC

(***************************************************************************)
(* Bounds of the model.                                                    *)
(***************************************************************************)
\* How many times a DNS answer may change during one fetch.
MaxDnsChanges == 1

\* The longest address list a lookup returns in the guard's own inputs.
MaxAddrs == 3

\* The clock of the fetch fan-out advances by at most this many seconds.
TickStep == 5

\* The longest query the expansion is checked on, in characters.
MaxQueryLen == 4

(***************************************************************************)
(* Strings are sequences of one-character strings, so that lowercasing and *)
(* suffix tests are computed character by character as str does.           *)
(***************************************************************************)
UpperChars == <<"A","B","C","D","E","F","G","H","I","J","K","L","M",
                "N","O","P","Q","R","S","T","U","V","W","X","Y","Z">>

LowerChars == <<"a","b","c","d","e","f","g","h","i","j","k","l","m",
                "n","o","p","q","r","s","t","u","v","w","x","y","z">>

\* u8::to_ascii_lowercase: 'A'..'Z' map to 'a'..'z', every other byte is kept.
char_to_ascii_lowercase(c) ==
    IF \E i \in 1..Len(UpperChars) : UpperChars[i] = c
    THEN LowerChars[CHOOSE i \in 1..Len(UpperChars) : UpperChars[i] = c]
    ELSE c

\* str::to_ascii_lowercase
to_ascii_lowercase(s) == [i \in 1..Len(s) |-> char_to_ascii_lowercase(s[i])]

\* str::ends_with
ends_with(s, suffix) ==
    /\ Len(s) >= Len(suffix)
    /\ SubSeq(s, Len(s) - Len(suffix) + 1, Len(s)) = suffix

\* str::starts_with
starts_with(s, prefix) ==
    /\ Len(s) >= Len(prefix)
    /\ SubSeq(s, 1, Len(prefix)) = prefix

\* The string literals of is_blocked_host and the domain names of the inputs.
STR_localhost == <<"l", "o", "c", "a", "l", "h", "o", "s", "t">>

STR_dot_localhost == <<".", "l", "o", "c", "a", "l", "h", "o", "s", "t">>

STR_dot_local == <<".", "l", "o", "c", "a", "l">>

STR_dot_internal == <<".", "i", "n", "t", "e", "r", "n", "a", "l">>

STR_dot_arpa == <<".", "a", "r", "p", "a">>

DOM_example_com == <<"e", "x", "a", "m", "p", "l", "e", ".", "c", "o", "m">>

DOM_evil_com == <<"e", "v", "i", "l", ".", "c", "o", "m">>

DOM_intra_corp == <<"i", "n", "t", "r", "a", ".", "c", "o", "r", "p">>

DOM_LocalHost == <<"L", "o", "c", "a", "l", "H", "o", "s", "t">>

DOM_x_localhost == <<"x", ".", "l", "o", "c", "a", "l", "h", "o", "s", "t">>

DOM_a_b_local == <<"a", ".", "b", ".", "l", "o", "c", "a", "l">>

DOM_A_B_LOCAL == <<"A", ".", "B", ".", "L", "O", "C", "A", "L">>

DOM_svc_internal == <<"s", "v", "c", ".", "i", "n", "t", "e", "r", "n", "a", "l">>

DOM_Svc_Internal == <<"S", "v", "c", ".", "I", "N", "T", "E", "R", "N", "A", "L">>

DOM_host_arpa == <<"h", "o", "s", "t", ".", "a", "r", "p", "a">>

DOM_in_addr_arpa == <<"e", "v", "i", "l", ".", "i", "n", "-", "a", "d", "d", "r", ".", "a", "r", "p", "a">>

DOM_Host_Arpa == <<"H", "o", "s", "t", ".", "A", "r", "p", "a">>

DOM_local == <<"l", "o", "c", "a", "l">>

DOM_notlocalhost == <<"n", "o", "t", "l", "o", "c", "a", "l", "h", "o", "s", "t">>

DOM_local_com == <<"l", "o", "c", "a", "l", ".", "c", "o", "m">>

DOM_internal_io == <<"i", "n", "t", "e", "r", "n", "a", "l", ".", "i", "o">>

DOM_arpa_net == <<"a", "r", "p", "a", ".", "n", "e", "t">>

DOM_mylocal == <<"a", ".", "m", "y", "l", "o", "c", "a", "l">>

(***************************************************************************)
(* IP addresses.  An IpAddr is [v |-> 4, w |-> the four octets] or         *)
(* [v |-> 6, w |-> the eight 16-bit segments].                             *)
(***************************************************************************)
V4(a, b, c, d) == [v |-> 4, w |-> <<a, b, c, d>>]

V6(s) == [v |-> 6, w |-> s]

\* The & of two unsigned integers, bit by bit.
RECURSIVE BitAnd(_, _)
BitAnd(a, b) ==
    IF a = 0 \/ b = 0 THEN 0
    ELSE (a % 2) * (b % 2) + 2 * BitAnd(a \div 2, b \div 2)

\* Ipv4Addr::is_loopback: 127.0.0.0/8
v4_is_loopback(o) == o[1] = 127

\* Ipv4Addr::is_private: 10.0.0.0/8, 172.16.0.0/12, 192.168.0.0/16
v4_is_private(o) ==
    \/ o[1] = 10
    \/ o[1] = 172 /\ BitAnd(o[2], 240) = 16
    \/ o[1] = 192 /\ o[2] = 168

\* Ipv4Addr::is_link_local: 169.254.0.0/16
v4_is_link_local(o) == o[1] = 169 /\ o[2] = 254

\* Ipv4Addr::is_unspecified: 0.0.0.0
v4_is_unspecified(o) == o = <<0, 0, 0, 0>>

\* Ipv4Addr::is_broadcast: 255.255.255.255
v4_is_broadcast(o) == o = <<255, 255, 255, 255>>

\* Mutant of is_cgn: the upper edge of the second octet is left out.
is_cgn_open_upper_edge(o) == o[1] = 100 /\ o[2] >= 64 /\ o[2] < 127

\* is_cgn: 100.64.0.0/10
is_cgn(o) == o[1] = 100 /\ o[2] >= 64 /\ o[2] <= 127

\* The IpAddr::V4 arm of is_private_ip.
is_private_v4(o) ==
    \/ v4_is_loopback(o)
    \/ v4_is_private(o)
    \/ v4_is_link_local(o)
    \/ v4_is_unspecified(o)
    \/ o[1] = 0
    \/ v4_is_broadcast(o)
    \/ is_cgn(o)

\* Ipv6Addr::is_loopback: ::1
v6_is_loopback(s) == s = <<0, 0, 0, 0, 0, 0, 0, 1>>

\* Ipv6Addr::is_unspecified: ::
v6_is_unspecified(s) == s = <<0, 0, 0, 0, 0, 0, 0, 0>>

\* Mutant of is_ipv6_link_local: the whole first segment is compared, which
\* keeps fe80::/16 only.
is_ipv6_link_local_first_segment(s) == s[1] = 65152

\* (segments()[0] & 0xffc0) == 0xfe80
is_ipv6_link_local(s) == BitAnd(s[1], 65472) = 65152

\* (segments()[0] & 0xfe00) == 0xfc00
is_ipv6_unique_local(s) == BitAnd(s[1], 65024) = 64512

\* Ipv6Addr::to_ipv4_mapped: Some(a.b.c.d) for ::ffff:a.b.c.d, else None
\* (the empty sequence).
to_ipv4_mapped(s) ==
    IF SubSeq(s, 1, 5) = <<0, 0, 0, 0, 0>> /\ s[6] = 65535
    THEN <<s[7] \div 256, s[7] % 256, s[8] \div 256, s[8] % 256>>
    ELSE <<>>

\* The IpAddr::V6 arm of is_private_ip.
is_private_v6(s) ==
    \/ v6_is_loopback(s)
    \/ v6_is_unspecified(s)
    \/ is_ipv6_link_local(s)
    \/ is_ipv6_unique_local(s)
    \/ (to_ipv4_mapped(s) # <<>> /\ is_private_v4(to_ipv4_mapped(s)))

is_private_ip(ip) ==
    IF ip.v = 4 THEN is_private_v4(ip.w) ELSE is_private_v6(ip.w)

(***************************************************************************)
(* URLs.  A raw URL is what url::Url::parse makes of the text: either a    *)
(* parse error, or a scheme and a host.  A host is an IPv4 literal, an     *)
(* IPv6 literal, a domain name, or absent.                                 *)
(***************************************************************************)
NoIp == [v |-> 0, w |-> <<>>]

HostIpv4(a, b, c, d) == [kind |-> "Ipv4", ip |-> V4(a, b, c, d), name |-> <<>>]

HostIpv6(s) == [kind |-> "Ipv6", ip |-> V6(s), name |-> <<>>]

HostDomain(n) == [kind |-> "Domain", ip |-> NoIp, name |-> n]

HostNone == [kind |-> "None", ip |-> NoIp, name |-> <<>>]

Url(scheme, host) == [wellformed |-> TRUE, scheme |-> scheme, host |-> host]

\* A text that url::Url::parse rejects ("not-a-url").
NotAUrl == [wellformed |-> FALSE, scheme |-> "", host |-> HostNone]

\* No URL yet (final_url before download returned).
NoUrl == [wellformed |-> FALSE, scheme |-> "unset", host |-> HostNone]

(***************************************************************************)
(* Results: Ok, or a FetchError variant with its message.                  *)
(***************************************************************************)
Ok == [kind |-> "Ok", msg |-> ""]

Err(k) == [kind |-> k, msg |-> ""]

ErrMsg(k, m) == [kind |-> k, msg |-> m]

Pending == [kind |-> "Pending", msg |-> ""]

(***************************************************************************)
(* The static host classifier.                                             *)
(***************************************************************************)
\* Mutant of is_blocked_domain: the domain is compared as written.
is_blocked_domain_case_sensitive(domain) ==
    \/ domain = STR_localhost
    \/ ends_with(domain, STR_dot_localhost)
    \/ ends_with(domain, STR_dot_local)
    \/ ends_with(domain, STR_dot_internal)
    \/ ends_with(domain, STR_dot_arpa)

is_blocked_domain(domain) ==
    LET lower == to_ascii_lowercase(domain)
    IN  \/ lower = STR_localhost
        \/ ends_with(lower, STR_dot_localhost)
        \/ ends_with(lower, STR_dot_local)
        \/ ends_with(lower, STR_dot_internal)
        \/ ends_with(lower, STR_dot_arpa)

\* match parsed.host() { Ipv4 | Ipv6 => is_private_ip, Domain => the suffix
\* test, None => true }
is_blocked_host(parsed) ==
    CASE parsed.host.kind = "Ipv4"   -> is_private_ip(parsed.host.ip)
      [] parsed.host.kind = "Ipv6"   -> is_private_ip(parsed.host.ip)
      [] parsed.host.kind = "Domain" -> is_blocked_domain(parsed.host.name)
      [] OTHER                       -> TRUE

\* Mutant of validate_url_sync: the host rule is applied before the scheme rule.
validate_url_sync_host_first(raw) ==
    IF ~raw.wellformed THEN Err("InvalidUrl")
    ELSE IF is_blocked_host(raw) THEN Err("InternalHost")
    ELSE IF raw.scheme \notin {"http", "https"} THEN Err("InvalidScheme")
    ELSE Ok

\* validate_url_sync: the parse error first, then the scheme, then the host.
validate_url_sync(raw) ==
    IF ~raw.wellformed THEN Err("InvalidUrl")
    ELSE IF raw.scheme \notin {"http", "https"} THEN Err("InvalidScheme")
    ELSE IF is_blocked_host(raw) THEN Err("InternalHost")
    ELSE Ok

(***************************************************************************)
(* The DNS resolver capability.  The system resolver's outcome for a name  *)
(* is a list of addresses, a resolution error, or no answer within         *)
(* DNS_LOOKUP_TIMEOUT.                                                     *)
(***************************************************************************)
Resolved(addrs) == [kind |-> "resolved", addrs |-> addrs]

ResolveError == [kind |-> "error", addrs |-> <<>>]

ResolveElapsed == [kind |-> "elapsed", addrs |-> <<>>]

\* Mutant of lookup: a timed-out lookup yields an empty address list.
lookup_timeout_as_empty(outcome) ==
    CASE outcome.kind = "error" ->
            [res |-> ErrMsg("DnsResolution", "lookup error"), addrs |-> <<>>]
      [] OTHER ->
            [res |-> Ok, addrs |-> outcome.addrs]

\* TokioDnsResolver::lookup: both failures become FetchError::DnsResolution.
lookup(outcome) ==
    CASE outcome.kind = "elapsed" ->
            [res |-> ErrMsg("DnsResolution", "DNS lookup timed out"), addrs |-> <<>>]
      [] outcome.kind = "error" ->
            [res |-> ErrMsg("DnsResolution", "lookup error"), addrs |-> <<>>]
      [] OTHER ->
            [res |-> Ok, addrs |-> outcome.addrs]

\* parsed.port().unwrap_or(if parsed.scheme() == "https" { 443 } else { 80 })
lookup_port(parsed) == IF parsed.scheme = "https" THEN 443 ELSE 80

\* Mutant of needs_lookup: every host that is present is resolved.
needs_lookup_any_host(parsed) == parsed.host.kind # "None"

\* if let Some(url::Host::Domain(domain)) = parsed.host()
needs_lookup(parsed) == parsed.host.kind = "Domain"

\* Mutant of check_resolved: only the first address is classified.
check_resolved_first_only(addrs) ==
    IF Len(addrs) > 0 /\ is_private_ip(addrs[1])
    THEN Err("InternalHost")
    ELSE Ok

\* for ip in addrs { if is_private_ip(ip) { return Err(InternalHost) } } Ok(())
\* Mutant of check_resolved: a name without addresses is refused.
check_resolved_requires_address(addrs) ==
    IF addrs = <<>> \/ \E i \in 1..Len(addrs) : is_private_ip(addrs[i])
    THEN Err("InternalHost")
    ELSE Ok

check_resolved(addrs) ==
    IF \E i \in 1..Len(addrs) : is_private_ip(addrs[i])
    THEN Err("InternalHost")
    ELSE Ok

(***************************************************************************)
(* download: the checks on the response, in the order of the code.         *)
(***************************************************************************)
MAX_RESPONSE_BYTES == 10000000

MAX_REDIRECTS == 5

IndexOfSemicolon(s) ==
    IF \E i \in 1..Len(s) : s[i] = ";"
    THEN CHOOSE i \in 1..Len(s) : s[i] = ";" /\ \A j \in 1..(i - 1) : s[j] # ";"
    ELSE Len(s) + 1

\* str::trim on ASCII whitespace
trim(s) ==
    LET keep == {i \in 1..Len(s) : s[i] \notin {" ", "\t"}}
    IN  IF keep = {} THEN <<>>
        ELSE SubSeq(s, CHOOSE i \in keep : \A j \in keep : i <= j,
                       CHOOSE i \in keep : \A j \in keep : i >= j)

\* content_type.split(';').next().unwrap_or("").trim()
mime_of(content_type) == trim(SubSeq(content_type, 1, IndexOfSemicolon(content_type) - 1))

STR_text_slash == <<"t","e","x","t","/">>

STR_application_xhtml_xml ==
    <<"a","p","p","l","i","c","a","t","i","o","n","/","x","h","t","m","l","+","x","m","l">>

STR_application_xml == <<"a","p","p","l","i","c","a","t","i","o","n","/","x","m","l">>

STR_application_json == <<"a","p","p","l","i","c","a","t","i","o","n","/","j","s","o","n">>

CT_text_html_utf8 ==
    <<"t","e","x","t","/","h","t","m","l",";"," ","c","h","a","r","s","e","t","=","u","t","f","-","8">>

CT_application_pdf == <<"a","p","p","l","i","c","a","t","i","o","n","/","p","d","f">>

\* The String made of the characters of chars.
RECURSIVE str_of(_)
str_of(chars) == IF chars = <<>> THEN "" ELSE Head(chars) \o str_of(Tail(chars))

\* Mutant of check_content_type: every application/ type is let through.
check_content_type_any_application(content_type) ==
    LET mime == mime_of(content_type)
    IN  IF /\ mime # <<>>
           /\ ~starts_with(mime, STR_text_slash)
           /\ ~starts_with(mime, <<"a","p","p","l","i","c","a","t","i","o","n","/">>)
        THEN ErrMsg("UnsupportedContentType", str_of(mime))
        ELSE Ok

check_content_type(content_type) ==
    LET mime == mime_of(content_type)
    IN  IF /\ mime # <<>>
           /\ ~starts_with(mime, STR_text_slash)
           /\ mime # STR_application_xhtml_xml
           /\ mime # STR_application_xml
           /\ mime # STR_application_json
        THEN ErrMsg("UnsupportedContentType", str_of(mime))
        ELSE Ok

RECURSIVE SumTo(_, _)
SumTo(chunks, n) == IF n = 0 THEN 0 ELSE chunks[n] + SumTo(chunks, n - 1)

NoLength == -1

NoHtml == -1

\* A response is [status, header (absent | ascii | opaque), content_type,
\* content_length (NoLength when not declared), chunks (the sizes of the body
\* chunks in arrival order)].
NoResponse ==
    [status |-> 0, header |-> "absent", content_type |-> <<>>,
     content_length |-> NoLength, chunks |-> <<>>]

download_head_ignores_length(resp) ==
    IF resp.status < 200 \/ resp.status > 299 THEN ErrMsg("Status", ToString(resp.status))
    ELSE IF resp.header = "ascii" /\ check_content_type(resp.content_type) # Ok
         THEN check_content_type(resp.content_type)
    ELSE Ok

\* Mutant of download_head: the declared length is tested before the type.
download_head_length_first(resp) ==
    IF resp.status < 200 \/ resp.status > 299 THEN ErrMsg("Status", ToString(resp.status))
    ELSE IF resp.content_length # NoLength /\ resp.content_length > MAX_RESPONSE_BYTES
         THEN Err("TooLarge")
    ELSE IF resp.header = "ascii" /\ check_content_type(resp.content_type) # Ok
         THEN check_content_type(resp.content_type)
    ELSE Ok

\* download from the response head to the start of the body stream: the
\* status, the Content-Type header, then the declared Content-Length.
download_head(resp) ==
    IF resp.status < 200 \/ resp.status > 299 THEN ErrMsg("Status", ToString(resp.status))
    ELSE IF resp.header = "ascii" /\ check_content_type(resp.content_type) # Ok
         THEN check_content_type(resp.content_type)
    ELSE IF resp.content_length # NoLength /\ resp.content_length > MAX_RESPONSE_BYTES
         THEN Err("TooLarge")
    ELSE Ok

over_cap_inclusive(len) == len >= MAX_RESPONSE_BYTES

\* if body.len() > MAX_RESPONSE_BYTES { return Err(FetchError::TooLarge) }
over_cap(len) == len > MAX_RESPONSE_BYTES

(***************************************************************************)
(* Decoding the body: extract_charset and decode_body (fetch/mod.rs), over *)
(* bytes 0..255 and code points. Of the encodings encoding_rs knows, the   *)
(* model holds UTF-8, windows-1252, UTF-16LE and UTF-16BE and their        *)
(* labels.                                                                 *)
(***************************************************************************)
\* Option<String>::None and Some(label)
NoCharset == [some |-> FALSE, value |-> <<>>]

SomeCharset(v) == [some |-> TRUE, value |-> v]

\* str::split(';'): the pieces between the semicolons, in order.
RECURSIVE split_semicolon(_)
split_semicolon(s) ==
    IF IndexOfSemicolon(s) > Len(s) THEN <<s>>
    ELSE <<SubSeq(s, 1, IndexOfSemicolon(s) - 1)>>
         \o split_semicolon(SubSeq(s, IndexOfSemicolon(s) + 1, Len(s)))

\* str::trim_matches('"')
RECURSIVE trim_matches_quote(_)
trim_matches_quote(s) ==
    IF s = <<>> THEN s
    ELSE IF Head(s) = "\"" THEN trim_matches_quote(Tail(s))
    ELSE IF s[Len(s)] = "\"" THEN trim_matches_quote(SubSeq(s, 1, Len(s) - 1))
    ELSE s

STR_charset_eq == <<"c","h","a","r","s","e","t","=">>

\* The closure of extract_charset: what one parameter yields.
charset_of_param(param) ==
    LET lower == to_ascii_lowercase(trim(param))
    IN  IF starts_with(lower, STR_charset_eq)
        THEN LET value == trim_matches_quote(trim(SubSeq(lower, Len(STR_charset_eq) + 1,
                                                         Len(lower))))
             IN  IF value # <<>> THEN SomeCharset(value) ELSE NoCharset
        ELSE NoCharset

\* find_map: the first parameter that yields a value.
RECURSIVE find_charset(_)
find_charset(ps) ==
    IF ps = <<>> THEN NoCharset
    ELSE IF charset_of_param(Head(ps)).some THEN charset_of_param(Head(ps))
    ELSE find_charset(Tail(ps))

\* content_type.split(';').skip(1).find_map(..)
extract_charset(content_type) == find_charset(Tail(split_semicolon(content_type)))

\* The labels of the Encoding Standard for the four encodings.
LABELS_utf_8 ==
    {"unicode-1-1-utf-8", "unicode11utf8", "unicode20utf8", "utf-8", "utf8",
     "x-unicode20utf8"}

LABELS_windows_1252 ==
    {"ansi_x3.4-1968", "ascii", "cp1252", "cp819", "csisolatin1", "ibm819",
     "iso-8859-1", "iso-ir-100", "iso8859-1", "iso88591", "iso_8859-1",
     "iso_8859-1:1987", "l1", "latin1", "us-ascii", "windows-1252", "x-cp1252"}

LABELS_utf_16le ==
    {"csunicode", "iso-10646-ucs-2", "ucs-2", "unicode", "unicodefeff", "utf-16",
     "utf-16le"}

LABELS_utf_16be == {"unicodefffe", "utf-16be"}

\* Encoding::for_label: the label without surrounding blanks, compared
\* without regard to case; "" stands for None.
for_label(label) ==
    LET name == str_of(to_ascii_lowercase(trim(label)))
    IN  IF name \in LABELS_utf_8 THEN "UTF-8"
        ELSE IF name \in LABELS_windows_1252 THEN "windows-1252"
        ELSE IF name \in LABELS_utf_16le THEN "UTF-16LE"
        ELSE IF name \in LABELS_utf_16be THEN "UTF-16BE"
        ELSE ""

\* U+FFFD REPLACEMENT CHARACTER
REPLACEMENT == 65533

\* What a decoder returns: the text and whether a sequence was malformed.
Decoded(t, e) == [text |-> t, had_errors |-> e]

\* One code point (or one replacement) before the rest.
Emit(c, e, rest) == Decoded(<<c>> \o rest.text, e \/ rest.had_errors)

Continuation(b) == b >= 128 /\ b <= 191

\* Continuation bytes a UTF-8 lead byte asks for; -1 for a byte that cannot
\* begin a sequence.
Needs(b) ==
    IF b < 128 THEN 0
    ELSE IF b >= 194 /\ b <= 223 THEN 1
    ELSE IF b >= 224 /\ b <= 239 THEN 2
    ELSE IF b >= 240 /\ b <= 244 THEN 3
    ELSE -1

\* The range of the second byte after a lead byte.
SecondLow(b) == IF b = 224 THEN 160 ELSE IF b = 240 THEN 144 ELSE 128

SecondHigh(b) == IF b = 237 THEN 159 ELSE IF b = 244 THEN 143 ELSE 191

\* UTF-8 with every maximal malformed part replaced by U+FFFD, as
\* String::from_utf8_lossy and the UTF-8 decoder of encoding_rs do.
RECURSIVE utf8_lossy(_)
utf8_lossy(b) ==
    IF b = <<>> THEN Decoded(<<>>, FALSE)
    ELSE LET n == Needs(b[1])
             from(k) == utf8_lossy(SubSeq(b, k, Len(b)))
         IN  IF n = 0 THEN Emit(b[1], FALSE, from(2))
             ELSE IF n = -1 THEN Emit(REPLACEMENT, TRUE, from(2))
             ELSE IF ~(Len(b) >= 2 /\ b[2] >= SecondLow(b[1]) /\ b[2] <= SecondHigh(b[1]))
                  THEN Emit(REPLACEMENT, TRUE, from(2))
             ELSE IF n = 1
                  THEN Emit((b[1] - 192) * 64 + (b[2] - 128), FALSE, from(3))
             ELSE IF ~(Len(b) >= 3 /\ Continuation(b[3]))
                  THEN Emit(REPLACEMENT, TRUE, from(3))
             ELSE IF n = 2
                  THEN Emit((b[1] - 224) * 4096 + (b[2] - 128) * 64 + (b[3] - 128),
                            FALSE, from(4))
             ELSE IF ~(Len(b) >= 4 /\ Continuation(b[4]))
                  THEN Emit(REPLACEMENT, TRUE, from(4))
             ELSE Emit((b[1] - 240) * 262144 + (b[2] - 128) * 4096 + (b[3] - 128) * 64
                       + (b[4] - 128), FALSE, from(5))

\* The code points of the bytes 0x80..0x9F in windows-1252.
WINDOWS_1252_HIGH == <<8364, 129, 8218, 402, 8222, 8230, 8224, 8225, 710, 8240, 352, 8249, 338, 141, 381, 143, 144, 8216, 8217, 8220, 8221, 8226, 8211, 8212, 732, 8482, 353, 8250, 339, 157, 382, 376>>

\* windows-1252: one code point per byte, no byte is malformed.
windows_1252(b) ==
    Decoded([i \in 1..Len(b) |-> IF b[i] >= 128 /\ b[i] <= 159
                                  THEN WINDOWS_1252_HIGH[b[i] - 127] ELSE b[i]],
            FALSE)

\* UTF-16 over the code units `unit` makes of each pair of bytes: a
\* surrogate pair is one code point, a lone surrogate and a last odd byte
\* are malformed.
RECURSIVE utf16(_, _)
utf16(b, be) ==
    IF b = <<>> THEN Decoded(<<>>, FALSE)
    ELSE IF Len(b) = 1 THEN Decoded(<<REPLACEMENT>>, TRUE)
    ELSE LET unit(k) == IF be THEN b[k] * 256 + b[k + 1] ELSE b[k + 1] * 256 + b[k]
             from(k) == utf16(SubSeq(b, k, Len(b)), be)
         IN  IF unit(1) < 55296 \/ unit(1) > 57343 THEN Emit(unit(1), FALSE, from(3))
             ELSE IF unit(1) <= 56319 /\ Len(b) >= 4 /\ unit(3) >= 56320 /\ unit(3) <= 57343
                  THEN Emit(65536 + (unit(1) - 55296) * 1024 + (unit(3) - 56320), FALSE,
                            from(5))
             ELSE IF unit(1) <= 56319 /\ Len(b) = 3 THEN Decoded(<<REPLACEMENT>>, TRUE)
             ELSE Emit(REPLACEMENT, TRUE, from(3))

\* Encoding::decode_without_bom_handling
decode_without_bom_handling(encoding, b) ==
    IF encoding = "UTF-8" THEN utf8_lossy(b)
    ELSE IF encoding = "windows-1252" THEN windows_1252(b)
    ELSE utf16(b, encoding = "UTF-16BE")

BOM_utf_8 == <<239, 187, 191>>

BOM_utf_16le == <<255, 254>>

BOM_utf_16be == <<254, 255>>

\* Encoding::decode: a byte order mark at the head of the bytes selects the
\* encoding and is removed, else the encoding it is called on decodes.
decode(encoding, b) ==
    IF starts_with(b, BOM_utf_8)
    THEN decode_without_bom_handling("UTF-8", SubSeq(b, 4, Len(b)))
    ELSE IF starts_with(b, BOM_utf_16le)
    THEN decode_without_bom_handling("UTF-16LE", SubSeq(b, 3, Len(b)))
    ELSE IF starts_with(b, BOM_utf_16be)
    THEN decode_without_bom_handling("UTF-16BE", SubSeq(b, 3, Len(b)))
    ELSE decode_without_bom_handling(encoding, b)

STR_utf_8 == <<"u","t","f","-","8">>

\* Mutant of decode_body: the declared charset is ignored.
decode_body_always_utf8(bytes, charset) ==
    [text |-> utf8_lossy(bytes).text, warned |-> FALSE]

\* decode_body: the String and whether the warn! event was emitted.
decode_body(bytes, charset) ==
    LET label == IF charset.some THEN charset.value ELSE STR_utf_8
        encoding == IF for_label(label) = "" THEN "UTF-8" ELSE for_label(label)
    IN  IF encoding = "UTF-8"
        THEN [text |-> utf8_lossy(bytes).text, warned |-> FALSE]
        ELSE [text |-> decode(encoding, bytes).text,
              warned |-> decode(encoding, bytes).had_errors]

\* `charset` after download has looked at the headers: extracted from a
\* Content-Type that is valid ASCII and passed check_content_type, None
\* otherwise.
charset_of(resp) ==
    IF /\ resp.status >= 200
       /\ resp.status <= 299
       /\ resp.header = "ascii"
       /\ check_content_type(resp.content_type) = Ok
    THEN extract_charset(resp.content_type)
    ELSE NoCharset

(***************************************************************************)
(* State of one fetch_page call and of its environment.                    *)
(***************************************************************************)
VARIABLES
    url,         \* the url argument of fetch_page
    pc,          \* where fetch_page stands
    dns,         \* what the system resolver answers for each name, now
    dnsChanges,  \* how many answers have changed since the call began
    dnsLookups,  \* the resolver.lookup calls made, in order
    guardLog,    \* the ssrf_check calls that returned, in order
    httpGets,    \* client.get(..).send() calls made
    requested,   \* hosts an HTTP request has been sent to
    current,     \* the URL the client is requesting (after redirects so far)
    redirects,   \* redirects followed by the client in this send()
    final_url,   \* response.url() of the downloaded response
    html,        \* byte length of the downloaded body, NoHtml when none is held
    response,    \* the response download is handling, NoResponse when none
    stream,      \* sizes of the body chunks the response has yet to deliver
    body,        \* bytes download has accumulated from the stream
    chunksRead,  \* chunk() calls that returned a chunk
    extracted,   \* the extractor that ran, "" when none did
    result       \* what fetch_page returned, Pending before it returns

vars == <<url, pc, dns, dnsChanges, dnsLookups, guardLog, httpGets, requested,
          current, redirects, final_url, html, response, stream, body, chunksRead,
          extracted, result>>

\* What download holds of the response it is reading.
streamVars == <<response, stream, body, chunksRead>>

\* The state of one research call (search/engine.rs).
VARIABLES
    request,         \* the ResearchRequest: query, depth, lang
    provider,        \* what the SearchClient returns for the query launched i-th
    pages,           \* what fetch_page returns for a URL when it is not cut off
    rpc,             \* where research is: start, search, fetch, done
    queries,         \* the expanded queries, in launch order
    search_outcomes, \* join_all's slots: the outcome of each search, by launch index
    searchOrder,     \* the launch indices in the order the searches completed
    search_log,      \* the errors run_searches passed to warn!
    search_results,  \* run_searches' successes
    all_sources,     \* collect_unique_sources(search_results)
    urls,            \* the URLs selected for fetching
    task,            \* per selected URL: queued, running since when, or done
    now,             \* seconds since fetch_sources was first polled
    fetch_outcomes,  \* (url, result) pairs in completion order
    report,          \* the ResearchReport, NoReport until research returns one
    returned         \* what research returned: Pending, Ok or the GeminiError

researchVars ==
    <<request, provider, pages, rpc, queries, search_outcomes, searchOrder,
      search_log, search_results, all_sources, urls, task, now, fetch_outcomes,
      report, returned>>

\* The state of one GeminiClient::search call (gemini/client.rs).
VARIABLES
    cpc,         \* where search is: idle, call, sleep, done
    attempt,     \* the loop variable of search
    attempts,    \* what generate_with_search returned, call by call
    sleeps,      \* the delays search slept, in milliseconds
    last_err,    \* the last retriable error
    searched     \* what search returned, SearchErr(NoError) until it returns

clientVars == <<cpc, attempt, attempts, sleeps, last_err, searched>>

\* The state of one call of the research tool (tools/mod.rs).
VARIABLES
    params,      \* the parameters of the call: query, depth, lang
    gemini,      \* whether the server holds a Gemini client
    tool_result  \* what the tool returned, ToolPending until it returns

toolVars == <<params, gemini, tool_result>>

\* What the tracing subscriber has received on the fetch path.
VARIABLES
    userinfo,    \* the userinfo part ("user:password") of the URL asked for, "" when it has none
    log          \* the events emitted, in order: level, call site, the url field

logVars == <<userinfo, log>>

\* What download decodes (fetch/mod.rs, decode_body).
VARIABLES
    content,     \* the bytes of the body where they are followed, <<>> where only their number is
    charset,     \* `charset` of download: the declared charset, NoCharset when none is held
    decoded      \* the String decode_body made of them, <<>> before it ran

decodeVars == <<content, charset, decoded>>

\* The search calls of one research call (one GeminiClient::search per query).
VARIABLES
    clients      \* per launched query: where its search is, its loop variable, its last_err

sessionVars == <<clients>>

auxVars == <<logVars, decodeVars, sessionVars>>

allVars == <<vars, researchVars, clientVars, toolVars, auxVars>>

\* The text of a URL as it is handed around: what Url::parse makes of it
\* and its userinfo part.
UrlText(u, ui) == [url |-> u, userinfo |-> ui]

\* A tracing event: its level, its message and its url field.
LogEvent(level, message, u) == [level |-> level, message |-> message, url |-> u]

\* redact_url_credentials: a text without '@' or one that does not parse is
\* returned as it is, else the userinfo is removed.
redact_url_credentials(raw) ==
    IF raw.userinfo = "" THEN raw
    ELSE IF raw.url.wellformed THEN [raw EXCEPT !.userinfo = ""]
    ELSE raw

\* The name asked of the resolver; DNS names compare case-insensitively.
DnsOutcome(name) ==
    IF to_ascii_lowercase(name) \in DOMAIN dns
    THEN dns[to_ascii_lowercase(name)]
    ELSE ResolveError

\* Mutant of fetch_page_next: the final URL is not checked again.
fetch_page_next_no_recheck(at, r) ==
    IF r.kind # "Ok" THEN "done"
    ELSE CASE at = "check1"   -> "download"
           [] at = "download" -> "extract"
           [] OTHER           -> "done"

\* Mutant of fetch_page_next: the verdict of the first check is ignored.
fetch_page_next_unchecked(at, r) ==
    IF at = "check1" THEN "download"
    ELSE IF r.kind # "Ok" THEN "done"
    ELSE CASE at = "download" -> "check2"
           [] at = "check2"   -> "extract"
           [] OTHER           -> "done"

\* Mutant of fetch_page_next: a failed download is attempted again.
fetch_page_next_retry_download(at, r) ==
    IF r.kind # "Ok" THEN (IF at = "download" THEN "download" ELSE "done")
    ELSE CASE at = "check1"   -> "download"
           [] at = "download" -> "check2"
           [] at = "check2"   -> "extract"
           [] OTHER           -> "done"

\* fetch_page: where control goes when a step returned r.  Every step's
\* error is propagated by `?`.
fetch_page_next(at, r) ==
    IF r.kind # "Ok" THEN "done"
    ELSE CASE at = "check1"   -> "download"
           [] at = "download" -> "check2"
           [] at = "check2"   -> "extract"
           [] OTHER           -> "done"

\* The userinfo of the text ssrf_check is given: that of the url argument,
\* or of response.url(), which is the url argument when no redirect was
\* followed.
FinalUserinfo == IF redirects = 0 THEN userinfo ELSE ""

UserinfoOf(call) == IF call = 1 THEN userinfo ELSE FinalUserinfo

SsrfTarget(call) == IF call = 1 THEN url ELSE final_url

PcCheck(call) == IF call = 1 THEN "check1" ELSE "check2"

PcLookup(call) == IF call = 1 THEN "lookup1" ELSE "lookup2"

\* ssrf_check returns verdict to fetch_page; on an error fetch_page returns it
\* and drops the body it holds.
SsrfReturn(call, verdict) ==
    /\ guardLog' = Append(guardLog,
                          [call |-> call, url |-> SsrfTarget(call),
                           verdict |-> verdict, gets |-> httpGets])
    /\ pc' = fetch_page_next(PcCheck(call), verdict)
    /\ result' = IF verdict.kind = "Ok" THEN result ELSE verdict
    /\ html' = IF verdict.kind = "Ok" THEN html ELSE NoHtml

\* ssrf_check up to its first await: validate_url_sync, then the resolver is
\* asked when the host is a domain.
SsrfCheckValidate(call) ==
    /\ pc = PcCheck(call)
    /\ LET raw == SsrfTarget(call)
           verdict == validate_url_sync(raw)
       IN  /\ IF verdict.kind = "Ok" /\ needs_lookup(raw)
              THEN /\ pc' = PcLookup(call)
                   /\ UNCHANGED <<guardLog, result, html>>
              ELSE SsrfReturn(call, verdict)
           /\ log' = IF verdict.kind = "InternalHost"
                     THEN Append(log, LogEvent("warn", "blocked fetch to internal/private host",
                                               redact_url_credentials(UrlText(raw, UserinfoOf(call)))))
                     ELSE log
    /\ UNCHANGED <<url, dns, dnsChanges, dnsLookups, httpGets, requested, current,
                   redirects, final_url, extracted, streamVars, researchVars, clientVars,
                   toolVars, userinfo, decodeVars, sessionVars>>

\* ssrf_check from resolver.lookup(domain, port).await to its return.
SsrfCheckResolve(call) ==
    /\ pc = PcLookup(call)
    /\ LET raw == SsrfTarget(call)
           outcome == DnsOutcome(raw.host.name)
           answer == lookup(outcome)
       IN  /\ dnsLookups' = Append(dnsLookups,
                                   [call |-> call, name |-> raw.host.name,
                                    port |-> lookup_port(raw), outcome |-> outcome])
           /\ SsrfReturn(call, IF answer.res.kind # "Ok" THEN answer.res
                               ELSE check_resolved(answer.addrs))
    /\ UNCHANGED <<url, dns, dnsChanges, httpGets, requested, current, redirects,
                   final_url, extracted, streamVars, researchVars, clientVars, toolVars, auxVars>>

\* download: client.get(url).send() puts the request for url on the wire.
DownloadSend ==
    /\ pc = "download"
    /\ httpGets' = httpGets + 1
    /\ requested' = requested \cup {url.host}
    /\ current' = url
    /\ redirects' = 0
    /\ pc' = "sent"
    /\ UNCHANGED <<url, dns, dnsChanges, dnsLookups, guardLog, final_url, html,
                   extracted, result, streamVars, researchVars, clientVars, toolVars, auxVars>>

\* The client's redirect policy (Policy::limited(MAX_REDIRECTS)) follows a
\* 3xx answer by requesting its target, inside the same send().
FollowRedirect(target) ==
    /\ pc = "sent"
    /\ redirects < MAX_REDIRECTS
    /\ redirects' = redirects + 1
    /\ requested' = requested \cup {target.host}
    /\ current' = target
    /\ UNCHANGED <<url, pc, dns, dnsChanges, dnsLookups, guardLog, httpGets,
                   final_url, html, extracted, result, streamVars, researchVars, clientVars, toolVars, auxVars>>

\* send() or chunk() fails: too many redirects, connection or body error.
TransportError ==
    /\ pc \in {"sent", "stream"}
    /\ result' = Err("Http")
    /\ pc' = fetch_page_next("download", Err("Http"))
    /\ stream' = <<>>
    /\ UNCHANGED <<url, dns, dnsChanges, dnsLookups, guardLog, httpGets, requested,
                   current, redirects, final_url, html, extracted, response, body,
                   chunksRead>>
    /\ UNCHANGED <<researchVars, clientVars, toolVars, auxVars>>

\* download from the response of the last hop to the first chunk().await:
\* the status, Content-Type and Content-Length checks.
DownloadHead(resp) ==
    /\ pc = "sent"
    /\ response' = resp
    /\ LET r == download_head(resp)
       IN  IF r.kind = "Ok"
           THEN /\ pc' = "stream"
                /\ stream' = resp.chunks
                /\ UNCHANGED result
           ELSE /\ pc' = fetch_page_next("download", r)
                /\ result' = r
                /\ UNCHANGED stream
    /\ log' = IF resp.status >= 200 /\ resp.status <= 299 /\ resp.header # "ascii"
              THEN Append(log, LogEvent("debug",
                                        IF resp.header = "absent"
                                        THEN "no Content-Type header, proceeding as text"
                                        ELSE "Content-Type header is not valid ASCII, proceeding as text",
                                        redact_url_credentials(UrlText(url, userinfo))))
              ELSE log
    /\ UNCHANGED <<url, dns, dnsChanges, dnsLookups, guardLog, httpGets, requested,
                   current, redirects, final_url, html, extracted, body, chunksRead>>
    /\ charset' = charset_of(resp)
    /\ UNCHANGED <<researchVars, clientVars, toolVars, userinfo, content, decoded,
                   sessionVars>>

\* One turn of the loop: stream.chunk().await returned Some(chunk); it is
\* appended to body and the length is tested.
DownloadChunk ==
    /\ pc = "stream"
    /\ stream # <<>>
    /\ body' = body + Head(stream)
    /\ chunksRead' = chunksRead + 1
    /\ IF over_cap(body + Head(stream))
       THEN /\ result' = Err("TooLarge")
            /\ pc' = fetch_page_next("download", Err("TooLarge"))
            /\ stream' = <<>>
       ELSE /\ stream' = Tail(stream)
            /\ UNCHANGED <<pc, result>>
    /\ UNCHANGED <<url, dns, dnsChanges, dnsLookups, guardLog, httpGets, requested,
                   current, redirects, final_url, html, extracted, response>>
    /\ UNCHANGED <<researchVars, clientVars, toolVars, auxVars>>

\* stream.chunk().await returned None: decode_body, and download returns
\* Ok((final_url, html)) to fetch_page.
DownloadEnd ==
    /\ pc = "stream"
    /\ stream = <<>>
    /\ final_url' = current
    /\ html' = body
    /\ decoded' = decode_body(content, charset).text
    /\ log' = IF decode_body(content, charset).warned
              THEN Append(log, LogEvent("warn", "lossy decoding: some bytes could not be decoded",
                                        UrlText(NoUrl, "")))
              ELSE log
    /\ response' = NoResponse
    /\ pc' = fetch_page_next("download", Ok)
    /\ UNCHANGED <<url, dns, dnsChanges, dnsLookups, guardLog, httpGets, requested,
                   current, redirects, extracted, result, stream, body, chunksRead>>
    /\ UNCHANGED <<researchVars, clientVars, toolVars, userinfo, content, charset,
                   sessionVars>>

\* extract_raw or extract_article, then to_fetch_result: fetch_page returns Ok.
Extract(raw) ==
    /\ pc = "extract"
    /\ extracted' = IF raw THEN "extract_raw" ELSE "extract_article"
    /\ log' = Append(log, LogEvent("debug", "page fetched",
                                   redact_url_credentials(UrlText(final_url, FinalUserinfo))))
    /\ result' = Ok
    /\ pc' = "done"
    /\ UNCHANGED <<url, dns, dnsChanges, dnsLookups, guardLog, httpGets, requested,
                   current, redirects, final_url, html, streamVars, researchVars, clientVars,
                   toolVars, userinfo, decodeVars, sessionVars>>

\* The environment: the answer for a name changes while the fetch runs.
DnsChange(name, outcome) ==
    /\ pc # "done"
    /\ name \in DOMAIN dns
    /\ dnsChanges < MaxDnsChanges
    /\ dns[name] # outcome
    /\ dns' = [dns EXCEPT ![name] = outcome]
    /\ dnsChanges' = dnsChanges + 1
    /\ UNCHANGED <<url, pc, dnsLookups, guardLog, httpGets, requested, current,
                   redirects, final_url, html, extracted, result, streamVars, researchVars, clientVars, toolVars, auxVars>>

(***************************************************************************)
(* Inputs.                                                                 *)
(***************************************************************************)
Pub4 == V4(8, 8, 8, 8)

Loop4 == V4(127, 0, 0, 1)

Priv4 == V4(10, 0, 0, 1)

\* 2001:db8::1
Pub6 == V6(<<8193, 3512, 0, 0, 0, 0, 0, 1>>)

\* fd00::1
Ula6 == V6(<<64768, 0, 0, 0, 0, 0, 0, 1>>)

UrlExample == Url("http", HostDomain(DOM_example_com))

UrlEvil == Url("https", HostDomain(DOM_evil_com))

UrlLoopback == Url("http", HostIpv4(127, 0, 0, 1))

UrlLocalhost == Url("http", HostDomain(STR_localhost))

\* The url arguments of the fetch: unparseable, bad schemes (with a public,
\* an internal and no host), IP literals, blocked and allowed domains.
Urls ==
    { NotAUrl,
      Url("ftp", HostDomain(DOM_example_com)),
      Url("ftp", HostIpv4(127, 0, 0, 1)),
      Url("file", HostNone),
      UrlLoopback,
      Url("https", HostIpv4(8, 8, 8, 8)),
      Url("http", HostIpv6(<<0, 0, 0, 0, 0, 0, 0, 1>>)),
      Url("http", HostIpv6(<<8193, 3512, 0, 0, 0, 0, 0, 1>>)),
      UrlLocalhost,
      Url("http", HostDomain(DOM_a_b_local)),
      UrlExample,
      UrlEvil }

\* Where a server may redirect the client to.
RedirectTargets == {UrlEvil, UrlLoopback, UrlLocalhost}

DnsNames == {DOM_example_com, DOM_evil_com}

DnsOutcomes ==
    { Resolved(<<Pub4>>), Resolved(<<Pub4, Loop4>>), ResolveError, ResolveElapsed }

AsciiHeader(ct) == [header |-> "ascii", content_type |-> ct]

Headers ==
    { [header |-> "absent", content_type |-> <<>>],
      [header |-> "opaque", content_type |-> <<>>],
      AsciiHeader(CT_text_html_utf8),
      AsciiHeader(CT_application_pdf) }

\* Declared length and streamed chunks: honest, declared over the cap,
\* streamed over the cap.
Bodies ==
    { [content_length |-> 11, chunks |-> <<11>>],
      [content_length |-> MAX_RESPONSE_BYTES + 1, chunks |-> <<11>>],
      [content_length |-> NoLength, chunks |-> <<5000000, 5000001>>] }

Response(st, h, b) ==
    [status |-> st, header |-> h.header, content_type |-> h.content_type,
     content_length |-> b.content_length, chunks |-> b.chunks]

HonestBody == [content_length |-> 11, chunks |-> <<11>>]

\* Every header with an honest body, an error status, and every body under
\* an allowed Content-Type.
Responses ==
    { Response(200, h, HonestBody) : h \in Headers } \cup
    { Response(404, AsciiHeader(CT_text_html_utf8), HonestBody) } \cup
    { Response(200, AsciiHeader(CT_text_html_utf8), b) : b \in Bodies }

(***************************************************************************)
(* Query expansion (search/bilingual.rs, search/lang.rs).  A query is the  *)
(* sequence of its characters' code points.                                *)
(***************************************************************************)
is_ascii_alphanumeric(c) ==
    \/ (c >= 48 /\ c <= 57)
    \/ (c >= 65 /\ c <= 90)
    \/ (c >= 97 /\ c <= 122)

\* Hiragana, katakana, CJK unified ideographs and their extension A.
contains_japanese(text) ==
    \E i \in DOMAIN text :
        \/ (text[i] >= 12352 /\ text[i] <= 12447)
        \/ (text[i] >= 12448 /\ text[i] <= 12543)
        \/ (text[i] >= 19968 /\ text[i] <= 40959)
        \/ (text[i] >= 13312 /\ text[i] <= 19903)

\* Mutant of is_split_char: char::is_alphanumeric in place of
\* is_ascii_alphanumeric, so that kana, ideographs and Hangul do not split.
is_split_char_unicode_alphanumeric(c) ==
    c < 128 /\ ~is_ascii_alphanumeric(c) /\ c # 45 /\ c # 95 /\ c # 46

\* The closure given to split: not alphanumeric and none of '-', '_', '.'.
is_split_char(c) == ~is_ascii_alphanumeric(c) /\ c # 45 /\ c # 95 /\ c # 46

\* str::split: the pieces between split characters, empty pieces included;
\* cur is the piece being read.
RECURSIVE split(_, _)
split(text, cur) ==
    IF text = <<>> THEN <<cur>>
    ELSE IF is_split_char(Head(text)) THEN <<cur>> \o split(Tail(text), <<>>)
    ELSE split(Tail(text), Append(cur, Head(text)))

\* [&str]::join(" ")
RECURSIVE join(_)
join(words) ==
    IF words = <<>> THEN <<>>
    ELSE IF Len(words) = 1 THEN Head(words)
    ELSE Head(words) \o <<32>> \o join(Tail(words))

\* Mutant of to_english_query: tokens of one character are kept.
to_english_query_keeps_short(query) ==
    LET ascii_words == SelectSeq(split(query, <<>>), LAMBDA w : Len(w) >= 1)
    IN  IF ascii_words = <<>> THEN query ELSE join(ascii_words)

to_english_query(query) ==
    LET ascii_words == SelectSeq(split(query, <<>>), LAMBDA w : Len(w) >= 2)
    IN  IF ascii_words = <<>> THEN query ELSE join(ascii_words)

expand_bilingual(query) ==
    IF contains_japanese(query)
    THEN LET eng == to_english_query(query)
         IN  IF eng = query THEN <<query>> ELSE <<query, eng>>
    ELSE <<query>>

\* " (日本語で回答)"
SUFFIX_ja == <<32, 40, 26085, 26412, 35486, 12391, 22238, 31572, 41>>

\* " (answer in English)"
SUFFIX_en ==
    <<32, 40, 97, 110, 115, 119, 101, 114, 32, 105, 110, 32, 69, 110, 103, 108,
      105, 115, 104, 41>>

apply_to_query(lang, query) ==
    CASE lang = "Ja" -> query \o SUFFIX_ja
      [] lang = "En" -> query \o SUFFIX_en
      [] OTHER       -> query

\* Mutant of expand: the language of the request is not looked at.
expand_ignores_lang(req) == expand_bilingual(req.query)

\* research, lines 49-52.
expand(req) ==
    IF req.lang = "Auto" THEN expand_bilingual(req.query)
    ELSE <<apply_to_query(req.lang, req.query)>>

(***************************************************************************)
(* Search outcomes and their aggregation (search/engine.rs).               *)
(***************************************************************************)
Source(u, t) == [url |-> u, title |-> t]

GroundedResult(a, srcs) == [answer |-> a, sources |-> srcs]

NoResult == GroundedResult("", <<>>)

\* GeminiError
GeminiError(v, c) == [variant |-> v, code |-> c]

RateLimited == GeminiError("RateLimited", 0)

QuotaExhausted == GeminiError("QuotaExhausted", 0)

Network == GeminiError("Network", 0)

Api(c) == GeminiError("Api", c)

NoError == GeminiError("none", 0)

\* Result<GroundedResult, GeminiError>
SearchOk(r) == [ok |-> TRUE, value |-> r, error |-> NoError]

SearchErr(e) == [ok |-> FALSE, value |-> NoResult, error |-> e]

\* Mutant of run_searches: no search succeeding is not an error.
run_searches_tolerates_all(outcomes) ==
    LET successes == SelectSeq(outcomes, LAMBDA o : o.ok)
        failures == SelectSeq(outcomes, LAMBDA o : ~o.ok)
    IN  [ok |-> TRUE,
         value |-> [i \in DOMAIN successes |-> successes[i].value],
         error |-> NoError,
         warned |-> [i \in DOMAIN failures |-> failures[i].error]]

\* Mutant of run_searches: one failed search fails the call.
run_searches_strict(outcomes) ==
    LET successes == SelectSeq(outcomes, LAMBDA o : o.ok)
        failures == SelectSeq(outcomes, LAMBDA o : ~o.ok)
    IN  IF failures # <<>>
        THEN [ok |-> FALSE, value |-> <<>>, error |-> failures[1].error,
              warned |-> <<failures[1].error>>]
        ELSE [ok |-> TRUE,
              value |-> [i \in DOMAIN successes |-> successes[i].value],
              error |-> NoError, warned |-> <<>>]

\* Mutant of run_searches: when all searches failed, the error of the last
\* failure is returned.
run_searches_last_error(outcomes) ==
    LET successes == SelectSeq(outcomes, LAMBDA o : o.ok)
        failures == SelectSeq(outcomes, LAMBDA o : ~o.ok)
    IN  IF successes = <<>>
        THEN LET first_err == IF failures # <<>> THEN failures[Len(failures)].error
                              ELSE RateLimited
             IN  [ok |-> FALSE, value |-> <<>>, error |-> first_err,
                  warned |-> <<first_err>>]
        ELSE [ok |-> TRUE,
              value |-> [i \in DOMAIN successes |-> successes[i].value],
              error |-> NoError,
              warned |-> [i \in DOMAIN failures |-> failures[i].error]]

\* run_searches after join_all: outcomes in launch order.  Returns the
\* Result and the errors it logged.
run_searches(outcomes) ==
    LET successes == SelectSeq(outcomes, LAMBDA o : o.ok)
        failures == SelectSeq(outcomes, LAMBDA o : ~o.ok)
    IN  IF successes = <<>>
        THEN LET first_err == IF failures # <<>> THEN failures[1].error
                              ELSE RateLimited
             IN  [ok |-> FALSE, value |-> <<>>, error |-> first_err,
                  warned |-> <<first_err>>]
        ELSE [ok |-> TRUE,
              value |-> [i \in DOMAIN successes |-> successes[i].value],
              error |-> NoError,
              warned |-> [i \in DOMAIN failures |-> failures[i].error]]

\* Mutant of collect_from: a source without URL is kept like any other.
RECURSIVE collect_from_keeps_blank(_, _)
collect_from_keeps_blank(srcs, acc) ==
    IF srcs = <<>> THEN acc
    ELSE LET source == Head(srcs)
         IN  IF source.url \notin acc.seen
             THEN collect_from_keeps_blank(Tail(srcs),
                               [seen |-> acc.seen \cup {source.url},
                                sources |-> Append(acc.sources, source)])
             ELSE collect_from_keeps_blank(Tail(srcs), acc)

\* The inner loop of collect_unique_sources over one result's sources.
\* acc is [seen, sources].
RECURSIVE collect_from(_, _)
collect_from(srcs, acc) ==
    IF srcs = <<>> THEN acc
    ELSE LET source == Head(srcs)
         IN  IF source.url # "" /\ source.url \notin acc.seen
             THEN collect_from(Tail(srcs),
                               [seen |-> acc.seen \cup {source.url},
                                sources |-> Append(acc.sources, source)])
             ELSE collect_from(Tail(srcs), acc)

\* The outer loop of collect_unique_sources.
RECURSIVE collect_over(_, _)
collect_over(results, acc) ==
    IF results = <<>> THEN acc
    ELSE collect_over(Tail(results), collect_from(Head(results).sources, acc))

collect_unique_sources(results) ==
    collect_over(results, [seen |-> {}, sources |-> <<>>]).sources

\* Mutant of take: the whole list whatever n.
take_all(seq, n) == seq

\* .iter().take(n)
take(seq, n) == SubSeq(seq, 1, IF n < Len(seq) THEN n ELSE Len(seq))

\* research, lines 57-61.
select_urls(sources, depth) ==
    LET taken == take(sources, depth)
    IN  [i \in DOMAIN taken |-> taken[i].url]

(***************************************************************************)
(* GeminiClient::search: the provider call and its retry loop              *)
(* (gemini/client.rs, gemini/grounding.rs).                                *)
(***************************************************************************)
MAX_RETRIES == 3

INITIAL_BACKOFF_MS == 1000

\* A grounding chunk of a provider response: its web uri and title.
Chunk(u, t) == [uri |-> u, title |-> t]

\* A GenerateContentResponse without error: the answer text and the chunks.
ProviderResponse(a, chunks) == [answer |-> a, chunks |-> chunks]

\* Result<GenerateContentResponse, GeminiError> of generate_with_search.
CallOk(r) == [ok |-> TRUE, response |-> r, error |-> NoError]

CallErr(e) == [ok |-> FALSE, response |-> ProviderResponse("", <<>>), error |-> e]

\* extract_grounded_result: the chunks with a non-empty uri become sources.
extract_grounded_result(resp) ==
    LET kept == SelectSeq(resp.chunks, LAMBDA c : c.uri # "")
    IN  GroundedResult(resp.answer,
                       [i \in DOMAIN kept |-> Source(kept[i].uri, kept[i].title)])

\* Mutant of is_retriable: every API error is retried.
is_retriable_any_api(e) == e.variant = "RateLimited" \/ e.variant = "Api"

is_retriable(e) ==
    \/ e.variant = "RateLimited"
    \/ (e.variant = "Api" /\ e.code >= 500 /\ e.code <= 599)

\* Mutant of jittered_backoff: full jitter, no fixed half.
jittered_backoff_full_jitter(n, rand) == rand

\* jittered_backoff with the value fastrand::u64(..half.max(1)) returned.
jittered_backoff(n, rand) ==
    LET base == INITIAL_BACKOFF_MS * 2^n
        half == base \div 2
    IN  half + rand

\* The largest value fastrand::u64(..half.max(1)) can return for attempt n.
RandTop(n) ==
    LET half == (INITIAL_BACKOFF_MS * 2^n) \div 2
    IN  (IF half > 1 THEN half ELSE 1) - 1

\* The values fastrand::u64(..half.max(1)) can return for attempt n.
RandRange(n) == 0..RandTop(n)

\* search, one turn of the loop: generate_with_search returned o.
GenerateReturns(o) ==
    /\ cpc = "call"
    /\ attempt < MAX_RETRIES
    /\ attempts' = Append(attempts, o)
    /\ IF o.ok
       THEN /\ searched' = SearchOk(extract_grounded_result(o.response))
            /\ cpc' = "done"
            /\ UNCHANGED <<attempt, last_err>>
       ELSE IF is_retriable(o.error)
       THEN /\ last_err' = o.error
            /\ IF attempt + 1 < MAX_RETRIES
               THEN /\ cpc' = "sleep"
                    /\ UNCHANGED <<attempt, searched>>
               ELSE /\ attempt' = attempt + 1
                    /\ cpc' = "done"
                    /\ searched' = SearchErr(IF last_err' = NoError THEN RateLimited
                                                                   ELSE last_err')
       ELSE /\ searched' = SearchErr(o.error)
            /\ cpc' = "done"
            /\ UNCHANGED <<attempt, last_err>>
    /\ UNCHANGED sleeps
    /\ UNCHANGED <<vars, researchVars, toolVars, auxVars>>

\* tokio::time::sleep(jittered_backoff(attempt)), then the next turn.
Sleep(rand) ==
    /\ cpc = "sleep"
    /\ rand \in RandRange(attempt)
    /\ sleeps' = Append(sleeps, jittered_backoff(attempt, rand))
    /\ attempt' = attempt + 1
    /\ cpc' = "call"
    /\ UNCHANGED <<attempts, last_err, searched>>
    /\ UNCHANGED <<vars, researchVars, toolVars, auxVars>>

ClientState(at) ==
    /\ cpc = at
    /\ attempt = 0
    /\ attempts = <<>>
    /\ sleeps = <<>>
    /\ last_err = NoError
    /\ searched = SearchErr(NoError)

\* No search call of its own: the client variables of the other
\* specifications.
NoSearch == ClientState("idle")

(***************************************************************************)
(* The fetch fan-out (fetch_sources).                                      *)
(***************************************************************************)
FETCH_TIMEOUT == 15

\* .buffer_unordered(5)
buffer_unordered == 5

NoPage == [url |-> "", markdown |-> ""]

\* Result<FetchResult, FetchError>
PageOk(u) == [ok |-> TRUE, page |-> [url |-> u, markdown |-> "markdown"], error |-> Ok]

PageErr(e) == [ok |-> FALSE, page |-> NoPage, error |-> e]

\* A page whose fetch_page call never returns within any timer.
PageHangs == [ok |-> FALSE, page |-> NoPage, error |-> Pending]

\* FetchError::Timeout(format!("page fetch timed out after {}s", 15))
TimeoutError == ErrMsg("Timeout", "page fetch timed out after 15s")

\* Display of FetchError: the format string of the variant and its argument.
to_string(e) ==
    CASE e.kind = "InvalidScheme" -> <<"invalid URL: must be HTTP(S)", "">>
      [] e.kind = "InvalidUrl" -> <<"invalid URL: {0}", e.msg>>
      [] e.kind = "InternalHost" -> <<"blocked: internal/private host not allowed", "">>
      [] e.kind = "Http" -> <<"fetch failed: {0}", e.msg>>
      [] e.kind = "DnsResolution" -> <<"DNS resolution failed: {0}", e.msg>>
      [] e.kind = "Status" -> <<"fetch failed: status {0}", e.msg>>
      [] e.kind = "UnsupportedContentType" ->
            <<"unsupported content type: {0} (expected text/HTML)", e.msg>>
      [] e.kind = "TooLarge" -> <<"response too large (>{} bytes)", "10000000">>
      [] OTHER -> <<"fetch timed out: {0}", e.msg>>

FailedUrl(u, e) == [url |-> u, reason |-> to_string(e)]

\* The two lists fetch_sources builds from the outcomes, lines 128-139.
fetched_pages_of(outcomes) ==
    LET oks == SelectSeq(outcomes, LAMBDA o : o.result.ok)
    IN  [i \in DOMAIN oks |-> oks[i].result.page]

\* Mutant of failed_urls_of: only the first failure is kept.
failed_urls_of_first_only(outcomes) ==
    LET errs == SelectSeq(outcomes, LAMBDA o : ~o.result.ok)
    IN  [i \in DOMAIN take(errs, 1) |-> FailedUrl(errs[i].url, errs[i].result.error)]

failed_urls_of(outcomes) ==
    LET errs == SelectSeq(outcomes, LAMBDA o : ~o.result.ok)
    IN  [i \in DOMAIN errs |-> FailedUrl(errs[i].url, errs[i].result.error)]

NoReport ==
    [search_results |-> <<>>, fetched_pages |-> <<>>, failed_urls |-> <<>>,
     all_sources |-> <<>>, present |-> FALSE]

ResearchReport(sr, fp, fu, as) ==
    [search_results |-> sr, fetched_pages |-> fp, failed_urls |-> fu,
     all_sources |-> as, present |-> TRUE]

(***************************************************************************)
(* One research call as a state machine.                                   *)
(***************************************************************************)
ReturnPending == [kind |-> "Pending", error |-> NoError]

ReturnOk == [kind |-> "Ok", error |-> NoError]

ReturnErr(e) == [kind |-> "Err", error |-> e]

\* A slot of join_all: the search future of launch index i and its output.
EmptySlot == [done |-> FALSE, outcome |-> SearchErr(NoError)]

QueuedTask == [status |-> "queued", admittedAt |-> -1]

DoneTask == [status |-> "done", admittedAt |-> -1]

Running == {i \in DOMAIN task : task[i].status = "running"}

Queued == {i \in DOMAIN task : task[i].status = "queued"}

Finished == {i \in DOMAIN task : task[i].status = "done"}

\* Mutant of CanAdmit: every URL of the stream is started at once.
CanAdmit_unbounded == Queued # {}

\* buffer_unordered pulls the next future from the stream while fewer than
\* its limit are in progress.
CanAdmit == Cardinality(Running) < buffer_unordered /\ Queued # {}

\* Mutant of Deadline: the timers count from the start of the fan-out.
Deadline_from_start(i) == FETCH_TIMEOUT

\* When the timer of running fetch i fires.
Deadline(i) == task[i].admittedAt + FETCH_TIMEOUT

\* research up to the first poll of run_searches: the queries are expanded
\* and join_all holds one search future per query.
ResearchStart ==
    /\ rpc = "start"
    /\ queries' = expand(request)
    /\ search_outcomes' = [i \in 1..Len(expand(request)) |-> EmptySlot]
    /\ rpc' = "search"
    /\ UNCHANGED <<request, provider, pages, searchOrder, search_log, search_results,
                   all_sources, urls, task, now, fetch_outcomes, report, returned>>
    /\ UNCHANGED <<vars, clientVars, toolVars, auxVars>>

\* Mutant of SearchComplete: the outputs are kept in the order in which the
\* searches complete.
SearchComplete_completion_order(i) ==
    /\ rpc = "search"
    /\ i \in DOMAIN search_outcomes
    /\ \A k \in DOMAIN searchOrder : searchOrder[k] # i
    /\ search_outcomes' =
          [search_outcomes EXCEPT ![Len(searchOrder) + 1] =
                                      [done |-> TRUE, outcome |-> provider[i]]]
    /\ searchOrder' = Append(searchOrder, i)
    /\ UNCHANGED <<request, provider, pages, rpc, queries, search_log, search_results,
                   all_sources, urls, task, now, fetch_outcomes, report, returned>>
    /\ UNCHANGED <<vars, clientVars, toolVars, auxVars>>

\* gemini.search(queries[i]) completes; join_all stores its output in slot i.
SearchComplete(i) ==
    /\ rpc = "search"
    /\ i \in DOMAIN search_outcomes
    /\ ~search_outcomes[i].done
    /\ search_outcomes' =
          [search_outcomes EXCEPT ![i] = [done |-> TRUE, outcome |-> provider[i]]]
    /\ searchOrder' = Append(searchOrder, i)
    /\ UNCHANGED <<request, provider, pages, rpc, queries, search_log, search_results,
                   all_sources, urls, task, now, fetch_outcomes, report, returned>>
    /\ UNCHANGED <<vars, clientVars, toolVars, auxVars>>

\* Mutant of RunSearchesReturn: run_searches returns as soon as one search
\* has completed, taking the searches still pending for failed.
RunSearchesReturn_first_completed ==
    /\ rpc = "search"
    /\ \E i \in DOMAIN search_outcomes : search_outcomes[i].done
    /\ LET r == run_searches([i \in DOMAIN search_outcomes |-> search_outcomes[i].outcome])
           sources == collect_unique_sources(r.value)
           selected == select_urls(sources, request.depth)
       IN  /\ search_log' = r.warned
           /\ IF r.ok
              THEN /\ search_results' = r.value
                   /\ all_sources' = sources
                   /\ urls' = selected
                   /\ task' = [i \in DOMAIN selected |-> QueuedTask]
                   /\ rpc' = "fetch"
                   /\ UNCHANGED returned
              ELSE /\ returned' = ReturnErr(r.error)
                   /\ rpc' = "done"
                   /\ UNCHANGED <<search_results, all_sources, urls, task>>
    /\ UNCHANGED <<request, provider, pages, queries, search_outcomes, searchOrder,
                   now, fetch_outcomes, report>>
    /\ UNCHANGED <<vars, clientVars, toolVars, auxVars>>

\* join_all is complete: run_searches returns; on Err research returns it,
\* on Ok research deduplicates the sources, selects the URLs and builds the
\* stream of fetches.
RunSearchesReturn ==
    /\ rpc = "search"
    /\ \A i \in DOMAIN search_outcomes : search_outcomes[i].done
    /\ LET r == run_searches([i \in DOMAIN search_outcomes |-> search_outcomes[i].outcome])
           sources == collect_unique_sources(r.value)
           selected == select_urls(sources, request.depth)
       IN  /\ search_log' = r.warned
           /\ IF r.ok
              THEN /\ search_results' = r.value
                   /\ all_sources' = sources
                   /\ urls' = selected
                   /\ task' = [i \in DOMAIN selected |-> QueuedTask]
                   /\ rpc' = "fetch"
                   /\ UNCHANGED returned
              ELSE /\ returned' = ReturnErr(r.error)
                   /\ rpc' = "done"
                   /\ UNCHANGED <<search_results, all_sources, urls, task>>
    /\ UNCHANGED <<request, provider, pages, queries, search_outcomes, searchOrder,
                   now, fetch_outcomes, report>>
    /\ UNCHANGED <<vars, clientVars, toolVars, auxVars>>

\* buffer_unordered takes the next URL's future from the stream; its timer
\* starts with its first poll.
Admit ==
    /\ rpc = "fetch"
    /\ CanAdmit
    /\ LET i == CHOOSE k \in Queued : \A j \in Queued : k <= j
       IN  task' = [task EXCEPT ![i] = [status |-> "running", admittedAt |-> now]]
    /\ UNCHANGED <<request, provider, pages, rpc, queries, search_outcomes,
                   searchOrder, search_log, search_results, all_sources, urls, now,
                   fetch_outcomes, report, returned>>
    /\ UNCHANGED <<vars, clientVars, toolVars, auxVars>>

\* Mutant of FetchYield: `buffered` in place of `buffer_unordered`, the
\* outcomes are kept in the order of the URLs.
FetchYield_in_url_order(i, res) ==
    /\ rpc = "fetch"
    /\ ~CanAdmit
    /\ i \in Running
    /\ LET before == Cardinality({k \in Finished : k < i})
       IN  fetch_outcomes' =
               SubSeq(fetch_outcomes, 1, before)
                   \o <<[url |-> urls[i], result |-> res]>>
                   \o SubSeq(fetch_outcomes, before + 1, Len(fetch_outcomes))
    /\ task' = [task EXCEPT ![i] = DoneTask]
    /\ UNCHANGED <<request, provider, pages, rpc, queries, search_outcomes,
                   searchOrder, search_log, search_results, all_sources, urls, now,
                   report, returned>>
    /\ UNCHANGED <<vars, clientVars, toolVars, auxVars>>

\* The future of task i yields (url, result), the result being res.
FetchYield(i, res) ==
    /\ rpc = "fetch"
    /\ ~CanAdmit
    /\ i \in Running
    /\ fetch_outcomes' = Append(fetch_outcomes, [url |-> urls[i], result |-> res])
    /\ task' = [task EXCEPT ![i] = DoneTask]
    /\ UNCHANGED <<request, provider, pages, rpc, queries, search_outcomes,
                   searchOrder, search_log, search_results, all_sources, urls, now,
                   report, returned>>
    /\ UNCHANGED <<vars, clientVars, toolVars, auxVars>>

\* fetch_page returns before the timer of task i has cut it off.
FetchComplete(i) ==
    /\ i \in Running
    /\ now <= Deadline(i)
    /\ pages[urls[i]] # PageHangs
    /\ FetchYield(i, pages[urls[i]])

\* The timer of task i fires first: timeout returns Err(Elapsed).
FetchTimeout(i) ==
    /\ i \in Running
    /\ now = Deadline(i)
    /\ FetchYield(i, PageErr(TimeoutError))

\* Time passes while every running fetch is pending and its timer unexpired.
Tick ==
    /\ rpc = "fetch"
    /\ ~CanAdmit
    /\ Running # {}
    /\ \A i \in Running : now < Deadline(i)
    /\ LET due == CHOOSE d \in {Deadline(i) : i \in Running} :
                      \A i \in Running : d <= Deadline(i)
       IN  now' = IF now + TickStep < due THEN now + TickStep ELSE due
    /\ UNCHANGED <<request, provider, pages, rpc, queries, search_outcomes,
                   searchOrder, search_log, search_results, all_sources, urls, task,
                   fetch_outcomes, report, returned>>
    /\ UNCHANGED <<vars, clientVars, toolVars, auxVars>>

\* The stream is exhausted: fetch_sources splits the outcomes and research
\* returns the report.
FetchSourcesReturn ==
    /\ rpc = "fetch"
    /\ \A i \in DOMAIN task : task[i].status = "done"
    /\ report' = ResearchReport(search_results, fetched_pages_of(fetch_outcomes),
                                failed_urls_of(fetch_outcomes), all_sources)
    /\ returned' = ReturnOk
    /\ rpc' = "done"
    /\ UNCHANGED <<request, provider, pages, queries, search_outcomes, searchOrder,
                   search_log, search_results, all_sources, urls, task, now,
                   fetch_outcomes>>
    /\ UNCHANGED <<vars, clientVars, toolVars, auxVars>>

(***************************************************************************)
(* research with its searches taken call by call: each expanded query runs *)
(* its own GeminiClient::search, the retry loops interleave under join_all *)
(* (search/engine.rs 73-81, gemini/client.rs 158-180).                     *)
(***************************************************************************)
\* A search that has not called the provider yet: `let mut last_err = None`,
\* attempt 0. `produced` holds the errors its provider calls returned and
\* `calls` counts them.
NewClient ==
    [cpc |-> "call", attempt |-> 0, last_err |-> NoError, produced |-> {}, calls |-> 0,
     ret |-> SearchErr(NoError)]

\* Mutant of search_turn: a retriable error is not kept in last_err.
search_turn_forgets_last_err(c, o) ==
    LET called == [c EXCEPT !.calls = @ + 1,
                            !.produced = IF o.ok THEN @ ELSE @ \cup {o.error}]
    IN  IF o.ok
        THEN [called EXCEPT !.cpc = "done",
                            !.ret = SearchOk(extract_grounded_result(o.response))]
        ELSE IF is_retriable(o.error)
        THEN IF c.attempt + 1 < MAX_RETRIES
             THEN [called EXCEPT !.cpc = "sleep"]
             ELSE [called EXCEPT !.attempt = @ + 1, !.cpc = "done",
                                 !.ret = SearchErr(IF c.last_err = NoError
                                                   THEN RateLimited ELSE c.last_err)]
        ELSE [called EXCEPT !.cpc = "done", !.ret = SearchErr(o.error)]

\* One turn of the loop of search: generate_with_search returned o. After
\* the last turn the loop is left and Err(last_err.unwrap_or(RateLimited))
\* is returned.
search_turn(c, o) ==
    LET called == [c EXCEPT !.calls = @ + 1,
                            !.produced = IF o.ok THEN @ ELSE @ \cup {o.error}]
    IN  IF o.ok
        THEN [called EXCEPT !.cpc = "done",
                            !.ret = SearchOk(extract_grounded_result(o.response))]
        ELSE IF is_retriable(o.error)
        THEN IF c.attempt + 1 < MAX_RETRIES
             THEN [called EXCEPT !.last_err = o.error, !.cpc = "sleep"]
             ELSE LET kept == [called EXCEPT !.last_err = o.error]
                  IN  [kept EXCEPT !.attempt = @ + 1, !.cpc = "done",
                                   !.ret = SearchErr(IF kept.last_err = NoError
                                                     THEN RateLimited ELSE kept.last_err)]
        ELSE [called EXCEPT !.cpc = "done", !.ret = SearchErr(o.error)]

\* Mutant of after_sleep: the loop variable does not advance.
after_sleep_same_attempt(c) == [c EXCEPT !.cpc = "call"]

\* The backoff has elapsed: the for loop takes its next value.
after_sleep(c) == [c EXCEPT !.attempt = @ + 1, !.cpc = "call"]

\* research's first poll with a client per query: the queries are expanded
\* and every search starts (join_all polls them all).
SessionStart ==
    /\ rpc = "start"
    /\ clients = <<>>
    /\ queries' = expand(request)
    /\ search_outcomes' = [i \in 1..Len(expand(request)) |-> EmptySlot]
    /\ clients' = [i \in 1..Len(expand(request)) |-> NewClient]
    /\ rpc' = "search"
    /\ UNCHANGED <<request, provider, pages, searchOrder, search_log, search_results,
                   all_sources, urls, task, now, fetch_outcomes, report, returned>>
    /\ UNCHANGED <<vars, clientVars, toolVars, logVars, decodeVars>>

\* generate_with_search of the search of queries[i] returns o; when that
\* ends the search, join_all stores its output in slot i.
SessionCall(i, o) ==
    /\ rpc = "search"
    /\ i \in DOMAIN clients
    /\ clients[i].cpc = "call"
    /\ clients[i].attempt < MAX_RETRIES
    /\ LET c == search_turn(clients[i], o)
       IN  /\ clients' = [clients EXCEPT ![i] = c]
           /\ IF c.cpc = "done"
              THEN /\ search_outcomes' =
                         [search_outcomes EXCEPT ![i] = [done |-> TRUE, outcome |-> c.ret]]
                   /\ searchOrder' = Append(searchOrder, i)
              ELSE UNCHANGED <<search_outcomes, searchOrder>>
    /\ UNCHANGED <<request, provider, pages, rpc, queries, search_log, search_results,
                   all_sources, urls, task, now, fetch_outcomes, report, returned>>
    /\ UNCHANGED <<vars, clientVars, toolVars, logVars, decodeVars>>

\* tokio::time::sleep of the search of queries[i] elapses.
SessionSleep(i) ==
    /\ rpc = "search"
    /\ i \in DOMAIN clients
    /\ clients[i].cpc = "sleep"
    /\ clients' = [clients EXCEPT ![i] = after_sleep(clients[i])]
    /\ UNCHANGED researchVars
    /\ UNCHANGED <<vars, clientVars, toolVars, logVars, decodeVars>>

\* The research variables with research at `at` and nothing done yet, for a
\* request and a world.
ResearchAt(at, req, prov, pgs) ==
    /\ request = req
    /\ provider = prov
    /\ pages = pgs
    /\ rpc = at
    /\ queries = <<>>
    /\ search_outcomes = <<>>
    /\ searchOrder = <<>>
    /\ search_log = <<>>
    /\ search_results = <<>>
    /\ all_sources = <<>>
    /\ urls = <<>>
    /\ task = <<>>
    /\ now = 0
    /\ fetch_outcomes = <<>>
    /\ report = NoReport
    /\ returned = ReturnPending

\* The state of research before its first poll.
InitResearchWith(req, prov, pgs) == ResearchAt("start", req, prov, pgs)

\* No research call: the research variables of a specification of fetch_page.
NoResearch ==
    InitResearchWith([query |-> <<>>, depth |-> 0, lang |-> "Auto"], <<>>, <<>>)

(***************************************************************************)
(* The research tool (tools/mod.rs, tools/errors.rs): from the parameters  *)
(* of the call to the request of research, and from what research returns  *)
(* to what the tool returns.                                               *)
(***************************************************************************)
\* Option<u8>::None
None == [some |-> FALSE, value |-> 0]

\* Option<Lang>::None
NoLang == [some |-> FALSE, value |-> ""]

Some(v) == [some |-> TRUE, value |-> v]

unwrap_or(opt, default) == IF opt.some THEN opt.value ELSE default

clamp(v, min, max) == IF v < min THEN min ELSE IF v > max THEN max ELSE v

\* Mutant of research_depth: the depth of the caller is taken as it is.
research_depth_unclamped(depth) == unwrap_or(depth, 3)

\* params.depth.unwrap_or(3).clamp(1, 10)
research_depth(depth) == clamp(unwrap_or(depth, 3), 1, 10)

\* params.lang.unwrap_or_default(): Auto is the default of Lang.
research_lang(lang) == IF lang.some THEN lang.value ELSE "Auto"

ApiKeyNotSet == GeminiError("ApiKeyNotSet", 0)

\* An McpError: its code, the error whose text is its message, and what is
\* appended to that text.
McpError(code, e, note) == [kind |-> "Err", code |-> code, error |-> e, note |-> note]

invalid_params_empty_query ==
    [kind |-> "Err", code |-> "invalid_params", error |-> NoError,
     note |-> "query must not be empty"]

ToolPending == [kind |-> "Pending", code |-> "", error |-> NoError, note |-> ""]

\* CallToolResult::success with the formatted report.
ToolSuccess == [kind |-> "Ok", code |-> "", error |-> NoError, note |-> ""]

retriable_error(e) == McpError("internal_error", e, " (retriable)")

gemini_to_mcp_error(e) ==
    CASE e.variant = "ApiKeyNotSet" -> McpError("invalid_params", e, "")
      [] e.variant = "RateLimited" -> retriable_error(e)
      [] e.variant = "QuotaExhausted" ->
             McpError("invalid_params", e,
                      " -- check your API billing at https://aistudio.google.com")
      [] OTHER -> McpError("internal_error", e, "")

\* The research tool up to its call of engine::research.
ToolResearch ==
    /\ rpc = "tool"
    /\ tool_result = ToolPending
    /\ IF params.query = <<>>
       THEN /\ tool_result' = invalid_params_empty_query
            /\ UNCHANGED <<request, rpc>>
       ELSE IF ~gemini
       THEN /\ tool_result' = gemini_to_mcp_error(ApiKeyNotSet)
            /\ UNCHANGED <<request, rpc>>
       ELSE /\ request' = [query |-> params.query,
                           depth |-> research_depth(params.depth),
                           lang |-> research_lang(params.lang)]
            /\ rpc' = "start"
            /\ UNCHANGED tool_result
    /\ UNCHANGED <<provider, pages, queries, search_outcomes, searchOrder, search_log,
                   search_results, all_sources, urls, task, now, fetch_outcomes,
                   report, returned>>
    /\ UNCHANGED <<vars, clientVars, params, gemini, auxVars>>

\* research has returned: its error is mapped, its report is formatted.
ToolResearchReturn ==
    /\ rpc = "done"
    /\ tool_result = ToolPending
    /\ returned.kind # "Pending"
    /\ tool_result' = IF returned.kind = "Err" THEN gemini_to_mcp_error(returned.error)
                      ELSE ToolSuccess
    /\ UNCHANGED <<vars, researchVars, clientVars, params, gemini, auxVars>>

\* FetchParams: the url text and the characters it begins with.
FetchParams(u, ui, head) == [url |-> UrlText(u, ui), head |-> head]

\* params.url.starts_with("http://") || params.url.starts_with("https://")
starts_with_http(p) == p.head \in {"http://", "https://"}

invalid_params_scheme ==
    [kind |-> "Err", code |-> "invalid_params", error |-> Err("none"),
     note |-> "URL must use http or https scheme"]

\* FetchError::Timeout(format!("fetch timed out after {}s", 30))
ToolTimeoutError == ErrMsg("Timeout", "fetch timed out after 30s")

\* Mutant of fetch_to_mcp_error: a refused host is an internal error.
fetch_to_mcp_error_internal_host_internal(e) ==
    IF e.kind \in {"InvalidScheme", "InvalidUrl", "UnsupportedContentType"}
    THEN McpError("invalid_params", e, "")
    ELSE McpError("internal_error", e, "")

fetch_to_mcp_error(e) ==
    IF e.kind \in {"InvalidScheme", "InvalidUrl", "InternalHost", "UnsupportedContentType"}
    THEN McpError("invalid_params", e, "")
    ELSE McpError("internal_error", e, "")

\* The fetch tool up to its call of fetch_page: the prefix test and the
\* info! event with the url of the caller.
ToolFetch ==
    /\ pc = "tool"
    /\ tool_result.kind = "Pending"
    /\ IF ~starts_with_http(params)
       THEN /\ tool_result' = invalid_params_scheme
            /\ UNCHANGED <<pc, log>>
       ELSE /\ log' = Append(log, LogEvent("info", "tool:fetch", params.url))
            /\ pc' = "check1"
            /\ UNCHANGED tool_result
    /\ UNCHANGED <<url, dns, dnsChanges, dnsLookups, guardLog, httpGets, requested,
                   current, redirects, final_url, html, extracted, result, streamVars>>
    /\ UNCHANGED <<researchVars, clientVars, params, gemini, userinfo, decodeVars,
                   sessionVars>>

\* FETCH_TOOL_TIMEOUT elapses before fetch_page has returned: the future is
\* dropped and the timeout error is mapped.
ToolFetchTimeout ==
    /\ pc \notin {"idle", "tool", "done", "dropped"}
    /\ tool_result.kind = "Pending"
    /\ tool_result' = fetch_to_mcp_error(ToolTimeoutError)
    /\ pc' = "dropped"
    /\ UNCHANGED <<url, dns, dnsChanges, dnsLookups, guardLog, httpGets, requested,
                   current, redirects, final_url, html, extracted, result, streamVars>>
    /\ UNCHANGED <<researchVars, clientVars, params, gemini, auxVars>>

\* fetch_page has returned: its error is mapped; a page extracted by the raw
\* fallback is announced with a warn! event, and the Markdown is returned.
ToolFetchReturn(used_raw_fallback) ==
    /\ pc = "done"
    /\ tool_result.kind = "Pending"
    /\ result.kind # "Pending"
    /\ used_raw_fallback => (result.kind = "Ok" /\ extracted = "extract_article")
    /\ tool_result' = IF result.kind = "Ok" THEN ToolSuccess ELSE fetch_to_mcp_error(result)
    /\ log' = IF used_raw_fallback
              THEN Append(log, LogEvent("warn", "readability extraction failed, using raw fallback",
                                        params.url))
              ELSE log
    /\ UNCHANGED <<vars, researchVars, clientVars, params, gemini, userinfo, decodeVars,
                   sessionVars>>

NoParams == [query |-> <<>>, depth |-> None, lang |-> NoLang]

ToolState(p, g) ==
    /\ params = p
    /\ gemini = g
    /\ tool_result = ToolPending

\* No tool call: research, search or fetch_page is called directly.
NoTool == ToolState(NoParams, FALSE)

\* A URL without credentials and nothing logged yet.
NoLog ==
    /\ userinfo = ""
    /\ log = <<>>

\* An empty body, not decoded.
NoDecode ==
    /\ content = <<>>
    /\ charset = NoCharset
    /\ decoded = <<>>

\* research's searches are taken as wholes (provider), not call by call.
NoSession == clients = <<>>

NoAux ==
    /\ NoLog
    /\ NoDecode
    /\ NoSession

\* The fetch variables before fetch_page has taken a step, with the call
\* standing at `at`.
FetchAt(at, u, d) ==
    /\ url = u
    /\ dns = d
    /\ pc = at
    /\ dnsChanges = 0
    /\ dnsLookups = <<>>
    /\ guardLog = <<>>
    /\ httpGets = 0
    /\ requested = {}
    /\ current = NoUrl
    /\ redirects = 0
    /\ final_url = NoUrl
    /\ html = NoHtml
    /\ response = NoResponse
    /\ stream = <<>>
    /\ body = 0
    /\ chunksRead = 0
    /\ extracted = ""
    /\ result = Pending

InitFetch(u, d) == FetchAt("check1", u, d)

Init ==
    /\ \E u \in Urls, d \in [DnsNames -> DnsOutcomes] : InitFetch(u, d)
    /\ NoResearch
    /\ NoSearch
    /\ NoTool
    /\ NoAux

Next ==
    \/ SsrfCheckValidate(1)
    \/ SsrfCheckResolve(1)
    \/ DownloadSend
    \/ \E t \in RedirectTargets : FollowRedirect(t)
    \/ TransportError
    \/ \E resp \in Responses : DownloadHead(resp)
    \/ DownloadChunk
    \/ DownloadEnd
    \/ SsrfCheckValidate(2)
    \/ SsrfCheckResolve(2)
    \/ \E raw \in BOOLEAN : Extract(raw)
    \/ \E n \in DnsNames, o \in DnsOutcomes : DnsChange(n, o)

Spec == Init /\ [][Next]_vars

(***************************************************************************)
(* The download slice: one fetch from its first Guard call to the return   *)
(* of download, over responses whose declared length and chunk stream      *)
(* cover the cap from both sides.                                          *)
(***************************************************************************)

\* Declared length and streamed chunks: honest, undeclared, exactly at the
\* cap in one and in two chunks, one byte over the cap, declared over the
\* cap, streamed over the cap with no or with a smaller declared length, a
\* first chunk over the cap, an empty body.
StreamBodies ==
    Bodies \cup
    { [content_length |-> NoLength, chunks |-> <<11>>],
      [content_length |-> NoLength, chunks |-> <<>>],
      [content_length |-> MAX_RESPONSE_BYTES, chunks |-> <<MAX_RESPONSE_BYTES>>],
      [content_length |-> NoLength, chunks |-> <<5000000, 5000000>>],
      [content_length |-> NoLength, chunks |-> <<5000000, 5000000, 1>>],
      [content_length |-> 11, chunks |-> <<5000000, 5000000, 1, 11>>],
      [content_length |-> NoLength, chunks |-> <<MAX_RESPONSE_BYTES + 1, 11>>],
      [content_length |-> MAX_RESPONSE_BYTES + 1, chunks |-> <<5000000, 5000001>>] }

StreamResponses ==
    { Response(st, h, b) : st \in {200, 204, 404}, h \in Headers, b \in StreamBodies }

InitDownload ==
    /\ \E u \in {UrlExample, UrlLoopback} :
          InitFetch(u, [n \in DnsNames |-> Resolved(<<Pub4>>)])
    /\ NoResearch
    /\ NoSearch
    /\ NoTool
    /\ NoAux

NextDownload ==
    \/ SsrfCheckValidate(1)
    \/ SsrfCheckResolve(1)
    \/ DownloadSend
    \/ TransportError
    \/ \E resp \in StreamResponses : DownloadHead(resp)
    \/ DownloadChunk
    \/ DownloadEnd

SpecDownload == InitDownload /\ [][NextDownload]_vars

(***************************************************************************)
(* ssrf_check on its own (as its unit tests call it), over a wide range of *)
(* URLs and resolver answers.                                              *)
(***************************************************************************)
\* Octets at and around the edges of the blocked IPv4 ranges.
Octet1 == {0, 1, 9, 10, 11, 99, 100, 101, 126, 127, 128, 168, 169, 170,
           171, 172, 173, 191, 192, 193, 254, 255}

Octet2 == {0, 15, 16, 31, 32, 63, 64, 127, 128, 168, 254, 255}

Octet3 == {0, 255}

Octet4 == {0, 1, 255}

V4Samples ==
    {V4(a, b, c, d) : a \in Octet1, b \in Octet2, c \in Octet3, d \in Octet4}
        \cup {Pub4, V4(169, 254, 169, 254)}

\* First segments at and around fc00::/7 and fe80::/10:
\* 0, 1, 2001, fbff, fc00, fd00, fdff, fe00, fe7f, fe80, febf, fec0, ffff.
Segment1 == {0, 1, 8193, 64511, 64512, 64768, 65023, 65024, 65151, 65152,
             65215, 65216, 65535}

\* Segments 2 to 5.
SegmentsMid == {<<0, 0, 0, 0>>, <<3512, 0, 0, 1>>}

Segment6 == {0, 65535}

\* The first two octets of an embedded IPv4 address: 0.0, 8.8, 10.0, 100.64,
\* 100.128, 127.0, 169.254, 172.16, 172.32, 192.168, 255.255.
Segment7 == {0, 2056, 2560, 25664, 25728, 32512, 43518, 44048, 44064, 49320,
             65535}

Segment8 == {0, 1, 65535}

V6Samples ==
    {V6(<<s1>> \o m \o <<s6, s7, s8>>) :
        s1 \in Segment1, m \in SegmentsMid, s6 \in Segment6,
        s7 \in Segment7, s8 \in Segment8}
        \cup {Pub6}

IpHost(ip) == [kind |-> IF ip.v = 4 THEN "Ipv4" ELSE "Ipv6", ip |-> ip, name |-> <<>>]

GuardDomains ==
    { STR_localhost, DOM_LocalHost, DOM_x_localhost, DOM_a_b_local, DOM_A_B_LOCAL,
      DOM_svc_internal, DOM_Svc_Internal, DOM_host_arpa, DOM_in_addr_arpa,
      DOM_Host_Arpa, DOM_local, DOM_notlocalhost, DOM_local_com, DOM_internal_io,
      DOM_arpa_net, DOM_mylocal, DOM_example_com, DOM_evil_com, DOM_intra_corp }

AddrPool == {Pub4, Loop4, Pub6, Ula6}

AddrLists == UNION {[1..n -> AddrPool] : n \in 0..MaxAddrs}

NoDns == [n \in {} |-> ResolveError]

GuardInput(u, d) == [url |-> u, dns |-> d]

GuardInputs ==
    \* an IP literal under every scheme
    {GuardInput(Url(s, IpHost(ip)), NoDns) :
        s \in {"http", "https", "ftp"}, ip \in V4Samples}
    \cup {GuardInput(Url(s, IpHost(ip)), NoDns) :
            s \in {"http", "ftp"}, ip \in V6Samples}
    \* a domain under every scheme, with each kind of resolver outcome
    \cup {GuardInput(Url(s, HostDomain(n)), (to_ascii_lowercase(n) :> o)) :
            s \in {"http", "https", "ftp"}, n \in GuardDomains, o \in DnsOutcomes}
    \* an allowed domain resolving to every address list up to MaxAddrs
    \cup {GuardInput(u, (u.host.name :> Resolved(l))) :
            u \in {UrlExample, UrlEvil}, l \in AddrLists}
    \* an allowed domain resolving to a sampled address, alone or after a
    \* public one
    \cup {GuardInput(UrlExample, (DOM_example_com :> Resolved(l))) :
            l \in UNION {{<<ip>>, <<Pub4, ip>>} : ip \in V4Samples \cup V6Samples}}
    \cup {GuardInput(u, NoDns) : u \in {NotAUrl, Url("file", HostNone)}}

InitGuard ==
    /\ \E in \in GuardInputs : InitFetch(in.url, in.dns)
    /\ NoResearch
    /\ NoSearch
    /\ NoTool
    /\ NoAux

NextGuard ==
    \/ SsrfCheckValidate(1)
    \/ SsrfCheckResolve(1)

SpecGuard == InitGuard /\ [][NextGuard]_vars

\* No fetch_page call of its own: the fetches are the tasks of the fan-out.
NoFetch == InitFetch(NoUrl, NoDns)

NextResearch ==
    \/ ResearchStart
    \/ \E i \in 1..2 : SearchComplete(i)
    \/ RunSearchesReturn
    \/ Admit
    \/ \E i \in Running : FetchComplete(i)
    \/ \E i \in Running : FetchTimeout(i)
    \/ Tick
    \/ FetchSourcesReturn

(***************************************************************************)
(* Inputs of research: requests, search worlds and page worlds.            *)
(***************************************************************************)
\* "rust"
Q_rust == <<114, 117, 115, 116>>

\* "Rust 入門"
Q_rust_nyumon == <<82, 117, 115, 116, 32, 20837, 38272>>

\* "入門"
Q_nyumon == <<20837, 38272>>

URL_a == "https://a.example/"

URL_b == "https://b.example/"

URL_c == "https://c.example/"

\* A result with a repeated URL under another title and a source without URL.
Result1 ==
    GroundedResult("one",
                   <<Source(URL_a, "A"), Source("", "untitled"), Source(URL_b, "B"),
                     Source(URL_a, "A again")>>)

\* A result that repeats URLs of Result1 under other titles and adds one.
Result2 ==
    GroundedResult("two", <<Source(URL_b, "B elsewhere"), Source(URL_c, "C"),
                            Source(URL_a, "A elsewhere")>>)

SearchOutcomes == {SearchOk(Result1), SearchOk(Result2), SearchErr(RateLimited), SearchErr(Api(500))}

Depths == {1, 2, 10}

Requests ==
    { [query |-> q, depth |-> d, lang |-> "Auto"] : q \in {Q_rust, Q_rust_nyumon}, d \in Depths }
    \cup { [query |-> Q_rust_nyumon, depth |-> 2, lang |-> l] : l \in {"Ja", "En"} }
    \cup { [query |-> Q_nyumon, depth |-> 2, lang |-> "Auto"] }

\* Every page fetched, some pages refused, every page refused.
PageWorlds ==
    { [u \in {URL_a, URL_b, URL_c} |-> PageOk(u)],
      (URL_a :> PageErr(Err("InternalHost"))) @@ (URL_b :> PageOk(URL_b))
          @@ (URL_c :> PageErr(ErrMsg("Status", "404"))),
      [u \in {URL_a, URL_b, URL_c} |-> PageErr(ErrMsg("DnsResolution", "lookup failed"))] }

InitResearch ==
    /\ NoFetch
    /\ NoSearch
    /\ NoTool
    /\ NoAux
    /\ \E req \in Requests, pgs \in PageWorlds :
          \E prov \in [1..Len(expand(req)) -> SearchOutcomes] :
              InitResearchWith(req, prov, pgs)

SpecResearch == InitResearch /\ [][NextResearch]_allVars

(***************************************************************************)
(* The fan-out at its limit: one search whose result names more URLs than  *)
(* buffer_unordered runs at once.                                          *)
(***************************************************************************)
WideUrls ==
    <<"https://w1.example/", "https://w2.example/", "https://w3.example/",
      "https://w4.example/", "https://w5.example/", "https://w6.example/">>

ResultWide ==
    GroundedResult("wide", [i \in DOMAIN WideUrls |-> Source(WideUrls[i], "W")])

\* Two pages are fetched, one is refused, three never answer.
WidePages ==
    (WideUrls[1] :> PageOk(WideUrls[1])) @@ (WideUrls[2] :> PageHangs)
    @@ (WideUrls[3] :> PageErr(Err("InternalHost"))) @@ (WideUrls[4] :> PageHangs)
    @@ (WideUrls[5] :> PageHangs) @@ (WideUrls[6] :> PageOk(WideUrls[6]))

WideDepths == {5, 10}

InitFanout ==
    /\ NoFetch
    /\ NoSearch
    /\ NoTool
    /\ NoAux
    /\ \E d \in WideDepths :
          InitResearchWith([query |-> Q_rust, depth |-> d, lang |-> "Auto"],
                           <<SearchOk(ResultWide)>>, WidePages)

\* The runtime polls every future that can make progress and its timers
\* fire: a step that is possible is eventually taken.
FairFanout == InitFanout /\ [][NextResearch]_allVars /\ WF_allVars(NextResearch)

SpecFanout == InitFanout /\ [][NextResearch]_allVars

(***************************************************************************)
(* A whole research session: every provider call may succeed or fail in    *)
(* any class, a page may be fetched, be refused or never answer.           *)
(***************************************************************************)
\* Two sources.
ResponseSession ==
    ProviderResponse("answer", <<Chunk(URL_a, "A"), Chunk(URL_b, "B")>>)

SessionOutcomes ==
    {CallOk(ResponseSession), CallErr(RateLimited), CallErr(Api(503)), CallErr(Network)}

SessionRequests ==
    { [query |-> Q_rust_nyumon, depth |-> d, lang |-> "Auto"] : d \in {1, 2, 10} }
    \cup { [query |-> Q_rust, depth |-> 2, lang |-> "Auto"] }

SessionPages ==
    { (URL_a :> PageOk(URL_a)) @@ (URL_b :> PageOk(URL_b)),
      (URL_a :> PageHangs) @@ (URL_b :> PageErr(ErrMsg("Status", "404"))) }

InitSession ==
    /\ NoFetch
    /\ NoSearch
    /\ NoTool
    /\ NoLog
    /\ NoDecode
    /\ NoSession
    /\ \E req \in SessionRequests, pgs \in SessionPages :
          InitResearchWith(req, <<>>, pgs)

NextSession ==
    \/ SessionStart
    \/ \E i \in 1..2, o \in SessionOutcomes : SessionCall(i, o)
    \/ \E i \in 1..2 : SessionSleep(i)
    \/ RunSearchesReturn
    \/ Admit
    \/ \E i \in Running : FetchComplete(i)
    \/ \E i \in Running : FetchTimeout(i)
    \/ Tick
    \/ FetchSourcesReturn

SpecSession == InitSession /\ [][NextSession]_allVars

\* Every provider call returns, every sleep elapses, the runtime polls every
\* future that can make progress and the fetch timers fire: a step that is
\* possible is eventually taken.
FairSession == InitSession /\ [][NextSession]_allVars /\ WF_allVars(NextSession)

(***************************************************************************)
(* One GeminiClient::search call against a provider that may answer any    *)
(* call in any way.                                                        *)
(***************************************************************************)
\* Two sources and a chunk without uri.
ResponseGrounded ==
    ProviderResponse("answer", <<Chunk("https://a.example/", "A"), Chunk("", "no uri"),
                                 Chunk("https://b.example/", "")>>)

\* What generate_with_search can return: a response, or an error of each
\* class, with API codes on both sides of 500 and 599.
CallOutcomes ==
    {CallOk(ResponseGrounded), CallErr(RateLimited), CallErr(QuotaExhausted),
     CallErr(Network)}
    \cup {CallErr(Api(c)) : c \in {0, 400, 499, 500, 503, 599, 600}}

\* The ends and the middle of the range the jitter is drawn from.
RandSamples(n) == {0, RandTop(n) \div 2, RandTop(n)}

InitSearch ==
    /\ NoFetch
    /\ NoResearch
    /\ ClientState("call")
    /\ NoTool
    /\ NoAux

NextSearch ==
    \/ \E o \in CallOutcomes : GenerateReturns(o)
    \/ \E rand \in RandSamples(attempt) : Sleep(rand)

SpecSearch == InitSearch /\ [][NextSearch]_allVars

(***************************************************************************)
(* The expansion of the queries alone, over every short query of an        *)
(* alphabet with a letter, a digit, '.', a blank, hiragana, katakana, an   *)
(* ideograph and a Hangul syllable.                                        *)
(***************************************************************************)
QueryAlphabet == {97, 55, 46, 32, 12354, 12450, 38272, 44032}

\* "型安全 TypeScript"
Q_typesafe ==
    <<22411, 23433, 20840, 32, 84, 121, 112, 101, 83, 99, 114, 105, 112, 116>>

\* "a_b-c 入門 x 10"
Q_mixed == <<97, 95, 98, 45, 99, 32, 20837, 38272, 32, 120, 32, 49, 48>>

QuerySamples ==
    UNION {[1..n -> QueryAlphabet] : n \in 1..MaxQueryLen}
    \cup {Q_typesafe, Q_mixed, Q_rust, Q_rust_nyumon, Q_nyumon}

Langs == {"Auto", "Ja", "En"}

InitExpand ==
    /\ NoFetch
    /\ NoSearch
    /\ NoTool
    /\ NoAux
    /\ \E q \in QuerySamples, l \in Langs :
          LET req == [query |-> q, depth |-> 3, lang |-> l]
          IN  InitResearchWith(req, [i \in 1..Len(expand(req)) |-> SearchErr(RateLimited)],
                               <<>>)

SpecExpand == InitExpand /\ [][ResearchStart]_allVars

(***************************************************************************)
(* One call of the research tool with any depth a caller can send, up to   *)
(* the selection of the URLs, against a search that names more sources     *)
(* than any depth lets through, and against one that fails.                *)
(***************************************************************************)
ManyUrls ==
    <<"https://m01.example/", "https://m02.example/", "https://m03.example/",
      "https://m04.example/", "https://m05.example/", "https://m06.example/",
      "https://m07.example/", "https://m08.example/", "https://m09.example/",
      "https://m10.example/", "https://m11.example/", "https://m12.example/">>

ResultMany ==
    GroundedResult("many", [i \in DOMAIN ManyUrls |-> Source(ManyUrls[i], "M")])

\* Option<u8>
DepthParams == {None} \cup {Some(d) : d \in 0..255}

ToolParams ==
    { [query |-> q, depth |-> d, lang |-> l] :
          q \in {Q_rust, <<>>}, d \in DepthParams, l \in {NoLang, Some("En")} }

InitTool ==
    /\ NoFetch
    /\ NoSearch
    /\ \E p \in ToolParams, g \in BOOLEAN : ToolState(p, g)
    /\ NoAux
    /\ \E prov \in {<<SearchOk(ResultMany)>>, <<SearchErr(RateLimited)>>} :
          ResearchAt("tool", [query |-> <<>>, depth |-> 0, lang |-> "Auto"], prov, <<>>)

NextTool ==
    \/ ToolResearch
    \/ ResearchStart
    \/ SearchComplete(1)
    \/ RunSearchesReturn
    \/ ToolResearchReturn

SpecTool == InitTool /\ [][NextTool]_allVars

(***************************************************************************)
(* Decoding: one fetch up to the return of download, over every body of at *)
(* most MaxBodyLen of the bytes that make up the byte order marks, an      *)
(* ASCII letter among them, and over headers that declare a charset in     *)
(* every way extract_charset tells apart.                                  *)
(***************************************************************************)
MaxBodyLen == 3

\* 'A', the bytes of the UTF-8 byte order mark, 0xFF and 0xFE.
BodyBytes == {65, 239, 187, 191, 255, 254}

BodiesOfBytes == UNION {[1..n -> BodyBytes] : n \in 0..MaxBodyLen}

\* text/html
CT_html ==
    <<"t","e","x","t","/","h","t","m","l">>

\* text/html; charset=UTF-8
CT_charset_upper ==
    <<"t","e","x","t","/","h","t","m","l",";"," ","c","h","a","r","s","e","t","=","U","T","F","-","8">>

\* text/html;charset='windows-1252'
CT_charset_quoted ==
    <<"t","e","x","t","/","h","t","m","l",";","c","h","a","r","s","e","t","=","\"","w","i","n","d","o","w","s","-","1","2","5","2","\"">>

\* text/html; boundary=x; Charset=ISO-8859-1
CT_charset_latin1 ==
    <<"t","e","x","t","/","h","t","m","l",";"," ","b","o","u","n","d","a","r","y","=","x",";"," ","C","h","a","r","s","e","t","=","I","S","O","-","8","8","5","9","-","1">>

\* text/html; charset=utf-16le
CT_charset_utf_16le ==
    <<"t","e","x","t","/","h","t","m","l",";"," ","c","h","a","r","s","e","t","=","u","t","f","-","1","6","l","e">>

\* text/html; charset = utf-16be
CT_charset_utf_16be ==
    <<"t","e","x","t","/","h","t","m","l",";"," ","c","h","a","r","s","e","t"," ","="," ","u","t","f","-","1","6","b","e">>

\* text/html; charset=unknown-encoding
CT_charset_unknown ==
    <<"t","e","x","t","/","h","t","m","l",";"," ","c","h","a","r","s","e","t","=","u","n","k","n","o","w","n","-","e","n","c","o","d","i","n","g">>

\* text/html; charset=''; charset=utf-16
CT_charset_empty_then_utf_16 ==
    <<"t","e","x","t","/","h","t","m","l",";"," ","c","h","a","r","s","e","t","=","\"","\"",";"," ","c","h","a","r","s","e","t","=","u","t","f","-","1","6">>

\* text/html; charset=
CT_charset_empty ==
    <<"t","e","x","t","/","h","t","m","l",";"," ","c","h","a","r","s","e","t","=">>

CharsetHeaders ==
    { [header |-> "absent", content_type |-> <<>>],
      [header |-> "opaque", content_type |-> <<>>] }
    \cup { AsciiHeader(ct) :
               ct \in {CT_html, CT_text_html_utf8, CT_charset_upper, CT_charset_quoted,
                        CT_charset_latin1, CT_charset_utf_16le, CT_charset_utf_16be,
                        CT_charset_unknown, CT_charset_empty_then_utf_16,
                        CT_charset_empty} }

\* The responses that deliver the bytes of `content` in one chunk, with the
\* length declared.
DecodeResponses ==
    { Response(200, h, [content_length |-> Len(content),
                        chunks |-> IF content = <<>> THEN <<>> ELSE <<Len(content)>>]) :
          h \in CharsetHeaders }

InitDecode ==
    /\ InitFetch(UrlExample, [n \in DnsNames |-> Resolved(<<Pub4>>)])
    /\ NoResearch
    /\ NoSearch
    /\ NoTool
    /\ NoLog
    /\ NoSession
    /\ content \in BodiesOfBytes
    /\ charset = NoCharset
    /\ decoded = <<>>

NextDecode ==
    \/ SsrfCheckValidate(1)
    \/ SsrfCheckResolve(1)
    \/ DownloadSend
    \/ \E resp \in DecodeResponses : DownloadHead(resp)
    \/ DownloadChunk
    \/ DownloadEnd

SpecDecode == InitDecode /\ [][NextDecode]_allVars

(***************************************************************************)
(* The tool surface: one call of the fetch tool or of the research tool,   *)
(* from its parameters to the result handed to the MCP client.             *)
(***************************************************************************)
\* URLs with and without credentials, a loopback URL, texts that do not
\* parse (with and without '@'), another scheme, an upper-case scheme and a
\* single slash, which Url::parse accepts and the prefix test does not.
SurfaceFetchParams ==
    { FetchParams(u, ui, "http://") :
          u \in {UrlExample, UrlLoopback, NotAUrl}, ui \in {"", "user:secret"} }
    \cup { FetchParams(UrlEvil, "user:secret", "https://"),
           FetchParams(Url("ftp", HostDomain(DOM_example_com)), "", "ftp://e"),
           FetchParams(UrlExample, "", "HTTP://"),
           FetchParams(UrlExample, "user:secret", "http:/u") }

SurfaceDns ==
    { [n \in DnsNames |-> Resolved(<<Pub4>>)],
      [n \in DnsNames |-> Resolved(<<Pub4, Loop4>>)],
      [n \in DnsNames |-> ResolveError] }

SurfaceSearches ==
    { <<SearchErr(e)>> : e \in {RateLimited, QuotaExhausted, Network, Api(500)} }
    \cup { <<SearchOk(Result1)>> }

SurfaceResearchParams ==
    { [query |-> q, depth |-> None, lang |-> NoLang] : q \in {Q_rust, <<>>} }

IdleResearch ==
    ResearchAt("idle", [query |-> <<>>, depth |-> 0, lang |-> "Auto"], <<>>, <<>>)

InitSurface ==
    /\ NoSearch
    /\ NoDecode
    /\ NoSession
    /\ log = <<>>
    /\ \/ /\ \E p \in SurfaceFetchParams, d \in SurfaceDns :
                 /\ ToolState(p, FALSE)
                 /\ FetchAt("tool", p.url.url, d)
                 /\ userinfo = p.url.userinfo
          /\ IdleResearch
       \/ /\ FetchAt("idle", NoUrl, NoDns)
          /\ userinfo = ""
          /\ \E p \in SurfaceResearchParams, g \in BOOLEAN : ToolState(p, g)
          /\ \E prov \in SurfaceSearches :
                 ResearchAt("tool", [query |-> <<>>, depth |-> 0, lang |-> "Auto"], prov, <<>>)

NextSurface ==
    \/ ToolFetch
    \/ SsrfCheckValidate(1)
    \/ SsrfCheckResolve(1)
    \/ DownloadSend
    \/ \E t \in RedirectTargets : FollowRedirect(t)
    \/ TransportError
    \/ \E resp \in Responses : DownloadHead(resp)
    \/ DownloadChunk
    \/ DownloadEnd
    \/ SsrfCheckValidate(2)
    \/ SsrfCheckResolve(2)
    \/ \E raw \in BOOLEAN : Extract(raw)
    \/ ToolFetchTimeout
    \/ \E used_raw_fallback \in BOOLEAN : ToolFetchReturn(used_raw_fallback)
    \/ ToolResearch
    \/ ResearchStart
    \/ SearchComplete(1)
    \/ RunSearchesReturn
    \/ ToolResearchReturn

SpecSurface == InitSurface /\ [][NextSurface]_allVars

(***************************************************************************)
(* download against 200 responses with many Content-Type headers: MIME     *)
(* types on both sides of the gate, bare, with parameters and with blanks  *)
(* around them.                                                            *)
(***************************************************************************)
MimeSamples ==
    { <<>>,
      <<"t","e","x","t","/">>,
      <<"t","e","x","t","/","h","t","m","l">>,
      <<"t","e","x","t","/","p","l","a","i","n">>,
      <<"t","e","x","t">>,
      <<"t","e","x","t","x","/","h","t","m","l">>,
      <<"T","E","X","T","/","h","t","m","l">>,
      <<"x","t","e","x","t","/","h","t","m","l">>,
      <<"a","p","p","l","i","c","a","t","i","o","n","/","x","h","t","m","l","+","x","m","l">>,
      <<"a","p","p","l","i","c","a","t","i","o","n","/","x","m","l">>,
      <<"a","p","p","l","i","c","a","t","i","o","n","/","j","s","o","n">>,
      <<"a","p","p","l","i","c","a","t","i","o","n","/","p","d","f">>,
      <<"a","p","p","l","i","c","a","t","i","o","n","/","j","s","o","n","x">>,
      <<"a","p","p","l","i","c","a","t","i","o","n","/","x","m">>,
      <<"A","p","p","l","i","c","a","t","i","o","n","/","j","s","o","n">>,
      <<"i","m","a","g","e","/","p","n","g">>,
      <<"a","p","p","l","i","c","a","t","i","o","n","/","o","c","t","e","t","-","s","t","r","e","a","m">>,
      <<"t","e"," ","x","t","/","h","t","m","l">> }

\* A header value made of a MIME type: bare, with a parameter, in blanks,
\* with a second ';', and with a supported type after the ';'.
ContentTypesOf(m) ==
    { m,
      m \o <<";"," ","c","h","a","r","s","e","t","=","u","t","f","-","8">>,
      <<" ","\t">> \o m \o <<" ">>,
      <<" ">> \o m \o <<" ",";",";","x">>,
      m \o <<";","t","e","x","t","/","h","t","m","l">> }

ContentTypeHeaders ==
    { [header |-> "absent", content_type |-> <<>>],
      [header |-> "opaque", content_type |-> <<>>] }
    \cup { AsciiHeader(ct) : ct \in UNION {ContentTypesOf(m) : m \in MimeSamples} }

ContentTypeResponses ==
    { Response(200, h, b) :
          h \in ContentTypeHeaders,
          b \in {HonestBody, [content_length |-> NoLength, chunks |-> <<5, 6>>]} }

NextContentType ==
    \/ SsrfCheckValidate(1)
    \/ SsrfCheckResolve(1)
    \/ DownloadSend
    \/ \E resp \in ContentTypeResponses : DownloadHead(resp)
    \/ DownloadChunk
    \/ DownloadEnd

SpecContentType == InitDownload /\ [][NextContentType]_allVars

(***************************************************************************)
(* Properties.                                                             *)
(***************************************************************************)
\* The lookups made by ssrf_check call c, as indices of dnsLookups.
LookupsOf(c) == {i \in DOMAIN dnsLookups : dnsLookups[i].call = c}

\* An outcome of the system resolver that holds no private address.
ResolvesPublic(outcome) ==
    /\ outcome.kind = "resolved"
    /\ \A j \in 1..Len(outcome.addrs) : ~is_private_ip(outcome.addrs[j])

\* Call c of the guard looked the host of raw up exactly once, by itself.
OwnLookup(c, raw) ==
    /\ Cardinality(LookupsOf(c)) = 1
    /\ \A i \in LookupsOf(c) : dnsLookups[i].name = raw.host.name

\* Call c of the guard had every reason to allow raw: the static check passes
\* and, for a domain, the call's own lookup returned public addresses only.
AllowedBy(c, raw) ==
    /\ validate_url_sync(raw) = Ok
    /\ IF raw.host.kind = "Domain"
       THEN OwnLookup(c, raw) /\ \A i \in LookupsOf(c) : ResolvesPublic(dnsLookups[i].outcome)
       ELSE LookupsOf(c) = {}

\* C1: fetch_page returns Ok only if the guard allowed the original URL
\* before the download (no GET sent yet) and allowed the final URL after it,
\* each call with its own lookup; and when the second call blocks or fails,
\* fetch_page has returned the guard's error, holds no body and ran no
\* extractor.
C1_OkOnlyAfterBothChecks ==
    /\ result.kind = "Ok" =>
          /\ Len(guardLog) = 2
          /\ guardLog[1] = [call |-> 1, url |-> url, verdict |-> Ok, gets |-> 0]
          /\ guardLog[2] = [call |-> 2, url |-> final_url, verdict |-> Ok, gets |-> 1]
          /\ AllowedBy(1, url)
          /\ AllowedBy(2, final_url)
    /\ (Len(guardLog) = 2 /\ ~AllowedBy(2, final_url)) =>
          /\ pc = "done"
          /\ result.kind \in {"InternalHost", "DnsResolution"}
          /\ result = guardLog[2].verdict
          /\ html = NoHtml
          /\ extracted = ""

\* C1 witness: the body was downloaded from the requested host itself, whose
\* name resolved to a private address by the time of the second check.
C1_Witness ==
    /\ Len(guardLog) = 2
    /\ httpGets = 1
    /\ redirects = 0
    /\ final_url = url
    /\ guardLog[1].verdict = Ok
    /\ result = Err("InternalHost")
    /\ html = NoHtml

\* The guard, with the answers the resolver gives now, classifies host h as
\* internal.
GuardClassifiesInternal(h) ==
    \/ h.kind \in {"Ipv4", "Ipv6"} /\ is_private_ip(h.ip)
    \/ h.kind = "Domain" /\ is_blocked_domain(h.name)
    \/ /\ h.kind = "Domain"
       /\ DnsOutcome(h.name).kind = "resolved"
       /\ \E j \in 1..Len(DnsOutcome(h.name).addrs) :
             is_private_ip(DnsOutcome(h.name).addrs[j])

\* C2: while the DNS answers stay the same, no HTTP request is sent to a host
\* the guard classifies as internal, whether requested or reached by a
\* redirect.
C2_NoRequestToInternalHost ==
    dnsChanges = 0 => \A h \in requested : ~GuardClassifiesInternal(h)

\* C4: nothing touches the network before the static check; when the static
\* check rejects the original URL, fetch_page returns that error and neither
\* the resolver nor the HTTP client is ever used; when the first DNS check
\* blocks or fails, the HTTP client is never used.
C4_StaticCheckBeforeNetwork ==
    /\ pc = "check1" => dnsLookups = <<>> /\ httpGets = 0 /\ requested = {}
    /\ validate_url_sync(url) # Ok =>
          /\ dnsLookups = <<>>
          /\ httpGets = 0
          /\ requested = {}
          /\ pc \in {"check1", "done"}
          /\ pc = "done" => result = validate_url_sync(url)
    /\ (\E i \in LookupsOf(1) : ~ResolvesPublic(dnsLookups[i].outcome)) =>
          /\ httpGets = 0
          /\ requested = {}
          /\ pc = "done"

\* C4 witness: a blocked domain was rejected by fetch_page without a lookup.
C4_Witness ==
    /\ pc = "done"
    /\ url.host.kind = "Domain"
    /\ url.scheme = "http"
    /\ result = Err("InternalHost")
    /\ dnsLookups = <<>>

\* C5: for a URL whose host is an IP literal, ssrf_check asks the resolver
\* nothing and its verdict is decided by the scheme and the IP predicate
\* alone, whatever the resolver would answer.
C5_IpLiteralSkipsDns ==
    /\ \A c \in {1, 2} :
          SsrfTarget(c).host.kind \in {"Ipv4", "Ipv6"} =>
              /\ LookupsOf(c) = {}
              /\ pc # PcLookup(c)
    /\ \A i \in DOMAIN guardLog :
          guardLog[i].url.host.kind \in {"Ipv4", "Ipv6"} =>
              guardLog[i].verdict =
                  IF guardLog[i].url.scheme \notin {"http", "https"}
                  THEN Err("InvalidScheme")
                  ELSE IF is_private_ip(guardLog[i].url.host.ip)
                  THEN Err("InternalHost")
                  ELSE Ok

\* C5 witness: a public IP literal passed the first check, no lookup made,
\* while the resolver would have returned a private address for some name.
C5_Witness ==
    /\ Len(guardLog) >= 1
    /\ url.host.kind = "Ipv4"
    /\ guardLog[1].verdict = Ok
    /\ dnsLookups = <<>>
    /\ \E n \in DOMAIN dns : ~ResolvesPublic(dns[n])

\* The lookup of guard call c failed: a resolution error or a timeout.
LookupFailed(c) ==
    \E i \in LookupsOf(c) : dnsLookups[i].outcome.kind \in {"error", "elapsed"}

\* C10: when the resolver fails, by error or by timeout, ssrf_check returns
\* DnsResolution; when that happens in the first check no HTTP request is
\* issued and fetch_page returns the error.
C10_DnsFailureIsDnsResolution ==
    /\ \A i \in DOMAIN guardLog :
          LookupFailed(guardLog[i].call) => guardLog[i].verdict.kind = "DnsResolution"
    /\ \A c \in {1, 2} :
          LookupFailed(c) => \E i \in DOMAIN guardLog : guardLog[i].call = c
    /\ LookupFailed(1) =>
          /\ pc = "done"
          /\ result.kind = "DnsResolution"
          /\ httpGets = 0
          /\ requested = {}

\* C10 witness: the first lookup timed out and fetch_page returned.
C10_Witness ==
    /\ pc = "done"
    /\ Len(dnsLookups) = 1
    /\ dnsLookups[1].outcome.kind = "elapsed"
    /\ result = ErrMsg("DnsResolution", "DNS lookup timed out")
    /\ httpGets = 0

\* ssrf_check has returned its verdict on the URL it was called with.
GuardReturned == Len(guardLog) = 1 /\ guardLog[1].url = url

\* The URL is a domain URL that passes the static check and whose lookup
\* returned an address list.
DomainResolved ==
    /\ GuardReturned
    /\ url.host.kind = "Domain"
    /\ validate_url_sync(url) = Ok
    /\ Len(dnsLookups) = 1
    /\ dnsLookups[1].outcome.kind = "resolved"

\* C3: for a statically allowed domain whose lookup succeeds, ssrf_check
\* returns InternalHost whenever an address at any position of the returned
\* list is private.
C3_FailClosedOnAnyAddress ==
    (/\ DomainResolved
     /\ \E j \in 1..Len(dnsLookups[1].outcome.addrs) :
           is_private_ip(dnsLookups[1].outcome.addrs[j]))
        => guardLog[1].verdict = Err("InternalHost") /\ result = Err("InternalHost")

\* C3 witness: the only private address is the last of the longest list.
C3_Witness ==
    /\ DomainResolved
    /\ LET addrs == dnsLookups[1].outcome.addrs
       IN  /\ Len(addrs) = MaxAddrs
           /\ is_private_ip(addrs[Len(addrs)])
           /\ \A j \in 1..(Len(addrs) - 1) : ~is_private_ip(addrs[j])
    /\ result = Err("InternalHost")

\* The first 16 bits of a.b.c.d as a number.
V4High(o) == o[1] * 256 + o[2]

\* a.b.c.d lies in the block base/len, for a prefix of at most 16 bits.
InCidr4(o, base, len) ==
    V4High(o) \div (2 ^ (16 - len)) = V4High(base) \div (2 ^ (16 - len))

\* The IPv4 blocks the specification lists, and the broadcast address.
InListedV4Ranges(o) ==
    \/ InCidr4(o, <<127, 0, 0, 0>>, 8)
    \/ InCidr4(o, <<10, 0, 0, 0>>, 8)
    \/ InCidr4(o, <<172, 16, 0, 0>>, 12)
    \/ InCidr4(o, <<192, 168, 0, 0>>, 16)
    \/ InCidr4(o, <<169, 254, 0, 0>>, 16)
    \/ InCidr4(o, <<100, 64, 0, 0>>, 10)
    \/ InCidr4(o, <<0, 0, 0, 0>>, 8)
    \/ \A k \in 1..4 : o[k] = 255

\* C6: every IPv4 address of the listed blocks is private for is_private_ip;
\* an http(s) URL with it as literal host is rejected with InternalHost, and
\* so is an allowed domain that resolves to it.
C6_ListedV4RangesBlocked ==
    /\ (/\ GuardReturned
        /\ url.scheme \in {"http", "https"}
        /\ url.host.kind = "Ipv4"
        /\ InListedV4Ranges(url.host.ip.w))
           => /\ is_private_ip(url.host.ip)
              /\ guardLog[1].verdict = Err("InternalHost")
              /\ result = Err("InternalHost")
    /\ (/\ DomainResolved
        /\ \E j \in 1..Len(dnsLookups[1].outcome.addrs) :
              /\ dnsLookups[1].outcome.addrs[j].v = 4
              /\ InListedV4Ranges(dnsLookups[1].outcome.addrs[j].w))
           => /\ guardLog[1].verdict = Err("InternalHost")
              /\ result = Err("InternalHost")

\* C6 witness: a domain resolving to a public address and to the last
\* address of 100.64.0.0/10 was rejected.
C6_Witness ==
    /\ DomainResolved
    /\ dnsLookups[1].outcome.addrs = <<Pub4, V4(100, 127, 255, 255)>>
    /\ result = Err("InternalHost")

\* The IPv6 addresses the specification lists: ::1, ::, fe80::/10, fc00::/7
\* and ::ffff:a.b.c.d with a.b.c.d blocked by the IPv4 rule.
InListedV6Ranges(s) ==
    \/ s = <<0, 0, 0, 0, 0, 0, 0, 1>>
    \/ s = <<0, 0, 0, 0, 0, 0, 0, 0>>
    \/ s[1] \div 64 = 65152 \div 64
    \/ s[1] \div 512 = 64512 \div 512
    \/ /\ \A k \in 1..5 : s[k] = 0
       /\ s[6] = 65535
       /\ is_private_v4(<<s[7] \div 256, s[7] % 256, s[8] \div 256, s[8] % 256>>)

\* C7: every listed IPv6 address is private for is_private_ip and an http(s)
\* URL with it as literal host is blocked as InternalHost by the static
\* check.
C7_ListedV6RangesBlocked ==
    (/\ GuardReturned
     /\ url.scheme \in {"http", "https"}
     /\ url.host.kind = "Ipv6"
     /\ InListedV6Ranges(url.host.ip.w))
        => /\ is_private_ip(url.host.ip)
           /\ guardLog[1].verdict = Err("InternalHost")
           /\ result = Err("InternalHost")
           /\ dnsLookups = <<>>

\* C7 witness: the last first-segment of fe80::/10 (febf) was blocked.
C7_Witness ==
    /\ GuardReturned
    /\ url.scheme = "http"
    /\ url.host.kind = "Ipv6"
    /\ url.host.ip.w[1] = 65215
    /\ result = Err("InternalHost")

IndexOfDot(s) ==
    IF \E i \in 1..Len(s) : s[i] = "."
    THEN CHOOSE i \in 1..Len(s) : s[i] = "." /\ \A j \in 1..(i - 1) : s[j] # "."
    ELSE 0

\* The labels of a domain name, split at its dots.
RECURSIVE Labels(_)
Labels(s) ==
    IF IndexOfDot(s) = 0 THEN <<s>>
    ELSE <<SubSeq(s, 1, IndexOfDot(s) - 1)>> \o Labels(SubSeq(s, IndexOfDot(s) + 1, Len(s)))

\* The domain, in any letter case, is localhost or lies under localhost,
\* .local, .internal or .arpa.
InBlockedZone(domain) ==
    LET labels == Labels(to_ascii_lowercase(domain))
        last == labels[Len(labels)]
    IN  \/ last = STR_localhost
        \/ /\ Len(labels) >= 2
           /\ last \in {Tail(STR_dot_local), Tail(STR_dot_internal), Tail(STR_dot_arpa)}

\* ssrf_check's verdict was not decided by the static check against the URL.
PassedStaticCheck ==
    /\ GuardReturned
    /\ guardLog[1].verdict.kind \notin {"InvalidUrl", "InvalidScheme"}
    /\ guardLog[1].verdict.kind = "InternalHost" => Len(dnsLookups) = 1

\* C8: an http(s) URL whose domain, in any letter case, is localhost or lies
\* under localhost, .local, .internal or .arpa is blocked as InternalHost
\* without a lookup; example.com, 8.8.8.8 and 2001:db8::1 pass the static
\* check.
C8_BlockedDomainSuffixes ==
    /\ (/\ GuardReturned
        /\ url.scheme \in {"http", "https"}
        /\ url.host.kind = "Domain"
        /\ InBlockedZone(url.host.name))
           => /\ guardLog[1].verdict = Err("InternalHost")
              /\ result = Err("InternalHost")
              /\ dnsLookups = <<>>
    /\ (/\ GuardReturned
        /\ url.scheme \in {"http", "https"}
        /\ url.host \in {HostDomain(DOM_example_com), IpHost(Pub4), IpHost(Pub6)})
           => PassedStaticCheck

\* C8 witness: Svc.INTERNAL, written in mixed case, was blocked without a
\* lookup.
C8_Witness ==
    /\ GuardReturned
    /\ url = Url("https", HostDomain(DOM_Svc_Internal))
    /\ result = Err("InternalHost")
    /\ dnsLookups = <<>>

\* C9: every parseable URL whose scheme is neither http nor https is rejected
\* with InvalidScheme, whatever its host, and no lookup happens.
C9_SchemeRuleFirst ==
    (url.wellformed /\ url.scheme \notin {"http", "https"})
        => /\ pc # "lookup1"
           /\ dnsLookups = <<>>
           /\ GuardReturned =>
                 guardLog[1].verdict = Err("InvalidScheme") /\ result = Err("InvalidScheme")

\* C9 witness: an ftp URL with a loopback literal host was rejected for its
\* scheme.
C9_Witness ==
    /\ GuardReturned
    /\ url.scheme = "ftp"
    /\ url.host.kind = "Ipv4"
    /\ is_private_ip(url.host.ip)
    /\ result = Err("InvalidScheme")

(***************************************************************************)
(* The size cap of download.                                               *)
(***************************************************************************)

\* The number of chunks after which the running total of a chunk stream
\* first exceeds 10,000,000 bytes; 0 when it never does.
FirstOverCap(chunks) ==
    IF \E n \in 1..Len(chunks) : SumTo(chunks, n) > 10000000
    THEN CHOOSE n \in 1..Len(chunks) :
            /\ SumTo(chunks, n) > 10000000
            /\ \A k \in 1..(n - 1) : SumTo(chunks, k) <= 10000000
    ELSE 0

\* download rejects the response neither for its status nor for its type.
AcceptableHead(resp) ==
    /\ resp.status >= 200
    /\ resp.status <= 299
    /\ resp.header = "ascii" => check_content_type(resp.content_type) = Ok

\* C11: the cap is on the bytes actually streamed.  A body download hands
\* back is at most 10,000,000 bytes and is the whole stream; the running
\* total exceeds the cap only in the state where download has stopped with
\* TooLarge, at the first chunk that crosses it, holding no content; and
\* TooLarge is returned only for a total or a declared length over the cap,
\* so a body of exactly 10,000,000 bytes is accepted, whatever the
\* Content-Length header said.
C11_StreamedSizeCap ==
    /\ html # NoHtml => /\ html <= 10000000
                        /\ html = body
                        /\ result # Err("TooLarge")
    /\ pc = "stream" => body <= 10000000
    /\ body > 10000000 =>
          /\ pc = "done"
          /\ result = Err("TooLarge")
          /\ html = NoHtml
          /\ final_url = NoUrl
          /\ chunksRead = FirstOverCap(response.chunks)
          /\ body = SumTo(response.chunks, chunksRead)
    /\ result = Err("TooLarge") =>
          \/ body > 10000000
          \/ response.content_length > 10000000
    /\ (pc = "stream" /\ stream = <<>>) => body = SumTo(response.chunks, Len(response.chunks))

\* C11 witness: a response declaring 11 bytes streamed past the cap and was
\* cut off with TooLarge at its third chunk, the fourth never read.
C11_Witness ==
    /\ response.content_length = 11
    /\ Len(response.chunks) = 4
    /\ chunksRead = 3
    /\ body = 10000001
    /\ result = Err("TooLarge")
    /\ html = NoHtml

\* C12: a response with a success status and an allowed content type that
\* declares a Content-Length over 10,000,000 is rejected with TooLarge, the
\* error kind of the streaming cap, before any chunk of its body is read.
C12_DeclaredLengthRejectedEarly ==
    (/\ AcceptableHead(response)
     /\ response.content_length # NoLength
     /\ response.content_length > 10000000)
    => /\ pc = "done"
       /\ result = Err("TooLarge")
       /\ chunksRead = 0
       /\ body = 0
       /\ html = NoHtml

\* C12 witness: a 200 text/html response declaring 10,000,001 bytes was
\* rejected with its two-chunk body unread.
C12_Witness ==
    /\ response.status = 200
    /\ response.header = "ascii"
    /\ response.content_length = 10000001
    /\ Len(response.chunks) = 2
    /\ result = Err("TooLarge")
    /\ chunksRead = 0

(***************************************************************************)
(* No retry inside fetch_page.                                             *)
(***************************************************************************)

\* C13: nothing is retried inside fetch_page.  Whatever the outcome, it
\* calls send() at most once (the transport follows at most MAX_REDIRECTS
\* redirects inside that one call), calls ssrf_check at most twice, once per
\* call position, with at most one DNS lookup per call, and the first error
\* of any step is what fetch_page returns: once an error is recorded the call
\* is over, and an error verdict of the Guard is the last thing it did.
C13_NothingRetried ==
    /\ httpGets <= 1
    /\ redirects <= MAX_REDIRECTS
    /\ Len(guardLog) <= 2
    /\ \A i, j \in DOMAIN guardLog : guardLog[i].call = guardLog[j].call => i = j
    /\ Len(dnsLookups) <= 2
    /\ \A i, j \in DOMAIN dnsLookups : dnsLookups[i].call = dnsLookups[j].call => i = j
    /\ result.kind \notin {"Pending", "Ok"} => pc = "done"
    /\ \A i \in DOMAIN guardLog :
          guardLog[i].verdict.kind # "Ok" =>
              /\ i = Len(guardLog)
              /\ pc = "done"
              /\ result = guardLog[i].verdict

\* C13 witness: a fetch that used its one GET and both Guard calls, each
\* with a lookup, and returned the error of the second check.
C13_Witness ==
    /\ pc = "done"
    /\ httpGets = 1
    /\ Len(guardLog) = 2
    /\ Len(dnsLookups) = 2
    /\ result.kind = "InternalHost"

(***************************************************************************)
(* The research orchestrator: searches and their aggregation.              *)
(***************************************************************************)

\* What the searches of this session return, in launch order: the failed
\* ones and the successful ones.
FailedSearches == SelectSeq(provider, LAMBDA o : ~o.ok)

SuccessfulSearches == SelectSeq(provider, LAMBDA o : o.ok)

\* A fetch has been started or has ended.
SomeFetchStarted ==
    \/ fetch_outcomes # <<>>
    \/ \E i \in DOMAIN task : task[i].status # "queued"

\* C14: when every dispatched search fails, research returns an error, the
\* error of the first failed search in launch order, and no report; no URL
\* is selected and no page fetch (the only user of the resolver) is started
\* at any point of the session.
C14_AllSearchesFailIsError ==
    (rpc # "start" /\ SuccessfulSearches = <<>>) =>
        /\ rpc \in {"search", "done"}
        /\ ~report.present
        /\ returned.kind # "Ok"
        /\ urls = <<>>
        /\ task = <<>>
        /\ ~SomeFetchStarted
        /\ rpc = "done" => returned = ReturnErr(FailedSearches[1].error)

\* C14 witness: two searches failed with different errors and research
\* returned the error of the first.
C14_Witness ==
    /\ rpc = "done"
    /\ Len(queries) = 2
    /\ provider[1] = SearchErr(RateLimited)
    /\ provider[2] = SearchErr(Api(500))
    /\ returned = ReturnErr(RateLimited)

\* C15: when at least one dispatched search succeeds, research never
\* returns an error and returns Ok with a report whose search_results are
\* exactly the results of the successful searches, one per successful query
\* in launch order; the errors of the failed searches go to the log only.
C15_PartialSearchFailureTolerated ==
    (rpc # "start" /\ SuccessfulSearches # <<>>) =>
        /\ returned.kind # "Err"
        /\ rpc = "done" =>
              /\ returned = ReturnOk
              /\ report.present
              /\ Len(report.search_results) >= 1
              /\ report.search_results =
                    [i \in DOMAIN SuccessfulSearches |-> SuccessfulSearches[i].value]
              /\ search_log = [i \in DOMAIN FailedSearches |-> FailedSearches[i].error]

\* C15 witness: of two searches the first failed, the second succeeded, and
\* the report holds the one result.
C15_Witness ==
    /\ rpc = "done"
    /\ Len(queries) = 2
    /\ ~provider[1].ok
    /\ provider[2].ok
    /\ report.present
    /\ Len(report.search_results) = 1
    /\ search_log = <<provider[1].error>>

\* The sources of the successful results, walked in query order and in each
\* result's own order.
RECURSIVE WalkSources(_)
WalkSources(outcomes) ==
    IF outcomes = <<>> THEN <<>>
    ELSE Head(outcomes).value.sources \o WalkSources(Tail(outcomes))

\* Where a URL first occurs in a walk.
FirstOccurrence(walk, u) ==
    CHOOSE i \in DOMAIN walk :
        walk[i].url = u /\ \A j \in 1..(i - 1) : walk[j].url # u

\* C16: once the searches are aggregated, all_sources holds every non-empty
\* URL of the successful results exactly once, holds no source with an
\* empty URL, each entry is the first occurrence of its URL, title included,
\* and the entries are ordered by first occurrence; the report carries that
\* list.
C16_UniqueSourcesInFirstSeenOrder ==
    LET walk == WalkSources(SuccessfulSearches)
    IN  /\ rpc = "fetch" \/ (rpc = "done" /\ returned = ReturnOk) =>
              /\ \A k \in DOMAIN all_sources : all_sources[k].url # ""
              /\ \A j, k \in DOMAIN all_sources :
                    all_sources[j].url = all_sources[k].url => j = k
              /\ \A i \in DOMAIN walk :
                    walk[i].url # "" =>
                        \E k \in DOMAIN all_sources : all_sources[k].url = walk[i].url
              /\ \A k \in DOMAIN all_sources :
                    /\ \E i \in DOMAIN walk : walk[i].url = all_sources[k].url
                    /\ all_sources[k] = walk[FirstOccurrence(walk, all_sources[k].url)]
              /\ \A j, k \in DOMAIN all_sources :
                    j < k => FirstOccurrence(walk, all_sources[j].url)
                                 < FirstOccurrence(walk, all_sources[k].url)
        /\ report.present => report.all_sources = all_sources

\* C16 witness: two results that repeat each other's URLs under other
\* titles, one source without URL, and a report of the three distinct URLs.
C16_Witness ==
    /\ report.present
    /\ provider = <<SearchOk(Result1), SearchOk(Result2)>>
    /\ report.all_sources =
          <<Source(URL_a, "A"), Source(URL_b, "B"), Source(URL_c, "C")>>

(***************************************************************************)
(* The research orchestrator: the fetch fan-out.                           *)
(***************************************************************************)

\* The number of outcomes recorded for URL u.
OutcomesFor(u) == Cardinality({i \in DOMAIN fetch_outcomes : fetch_outcomes[i].url = u})

\* C17: depth bounds the fetches, not the reported sources.  With n
\* deduplicated sources and depth d the selected URLs are the first
\* min(d, n) URLs of all_sources; only they get a fetch task, each yields
\* at most one outcome while the fan-out runs and exactly one when the
\* report is built, and the report's all_sources holds all n sources.
C17_DepthBoundsFetchesOnly ==
    LET n == Len(all_sources)
        k == IF request.depth < n THEN request.depth ELSE n
    IN  (rpc = "fetch" \/ report.present) =>
            /\ Len(urls) = k
            /\ \A i \in 1..k : urls[i] = all_sources[i].url
            /\ DOMAIN task = 1..k
            /\ Len(fetch_outcomes) = Cardinality(Finished)
            /\ \A i \in DOMAIN fetch_outcomes :
                  \E j \in 1..k : /\ urls[j] = fetch_outcomes[i].url
                                  /\ task[j].status = "done"
            /\ \A i \in 1..k : OutcomesFor(urls[i]) <= 1
            /\ report.present =>
                  /\ \A i \in 1..k : OutcomesFor(urls[i]) = 1
                  /\ Len(fetch_outcomes) = k
                  /\ Len(report.all_sources) = n
                  /\ report.all_sources = all_sources

\* C17 witness: three sources reported, depth 2, two fetches made.
C17_Witness ==
    /\ report.present
    /\ request.depth = 2
    /\ Len(report.all_sources) = 3
    /\ Len(fetch_outcomes) = 2
    /\ Len(report.fetched_pages) + Len(report.failed_urls) = 2

\* The entries of a list of the report that belong to URL u.
EntriesFor(list, u) == Cardinality({i \in DOMAIN list : list[i].url = u})

\* C19: fetch failures are not fatal and abort nothing.  A session in which
\* a search succeeded never returns an error; its report accounts for every
\* selected URL by exactly one entry, in fetched_pages when its fetch
\* returned a page, in failed_urls otherwise, the failed entry carrying the
\* selected URL and the text of its error, so the two lists together are as
\* long as the list of selected URLs, also when every fetch failed.
C19_FetchFailuresNotFatal ==
    /\ rpc = "fetch" => returned = ReturnPending
    /\ report.present =>
          /\ returned = ReturnOk
          /\ Len(report.fetched_pages) + Len(report.failed_urls) = Len(urls)
          /\ \A j \in DOMAIN urls :
                /\ EntriesFor(report.fetched_pages, urls[j])
                       + EntriesFor(report.failed_urls, urls[j]) = 1
                /\ EntriesFor(report.fetched_pages, urls[j]) = 1 => pages[urls[j]].ok
          /\ \A i \in DOMAIN report.failed_urls :
                LET e == report.failed_urls[i]
                IN  /\ \E j \in DOMAIN urls : urls[j] = e.url
                    /\ \/ e.reason = <<"fetch timed out: {0}", "page fetch timed out after 15s">>
                       \/ /\ ~pages[e.url].ok
                          /\ e.reason = to_string(pages[e.url].error)

\* C19 witness: every one of three fetches failed, two of them with the
\* error of fetch_page, and research returned the report.
C19_Witness ==
    /\ returned = ReturnOk
    /\ report.fetched_pages = <<>>
    /\ Len(report.failed_urls) = 3
    /\ \E i, j \in DOMAIN report.failed_urls :
          /\ i # j
          /\ report.failed_urls[i].reason[1] = "DNS resolution failed: {0}"
          /\ report.failed_urls[j].reason[1] = "DNS resolution failed: {0}"

\* C18: at most 5 fetches are in flight at any moment; a URL leaves the
\* queue only in a step that starts with fewer than 5 in flight, so the
\* sixth and later URLs start only after a fetch has finished; URLs start in
\* list order; and every selected URL eventually leaves the queue.
C18_AtMostFiveInFlight ==
    /\ [](Cardinality(Running) <= 5)
    /\ [](Cardinality(Running) + Cardinality(Finished) > 5 => Cardinality(Finished) >= 1)
    /\ [](\A i, j \in DOMAIN task : (i < j /\ task[j].status # "queued")
                                     => task[i].status # "queued")
    /\ [][\A i \in DOMAIN task :
            (i \in DOMAIN task' /\ task[i].status = "queued" /\ task'[i].status # "queued")
            => /\ Cardinality(Running) < 5
               /\ task'[i].status = "running"]_allVars
    /\ \A i \in DOMAIN WideUrls :
          (rpc = "fetch" /\ i \in DOMAIN task)
              ~> (i \in DOMAIN task /\ task[i].status # "queued")

\* C18 witness: the sixth URL runs beside four others after one fetch
\* finished.
C18_Witness ==
    /\ Len(task) = 6
    /\ task[6].status = "running"
    /\ Cardinality(Running) = 5
    /\ Cardinality(Finished) = 1

\* The outcome appended by a step of the fan-out.
NewOutcome == fetch_outcomes'[Len(fetch_outcomes')]

\* C20: each fetch has its own 15 s timer counted from its admission.  A
\* running fetch is never older than 15 s; a fetch is recorded as timed out
\* only in a step taken exactly 15 s after its own admission, which leaves
\* every other task as it was; a page that never answers is recorded with
\* the Timeout text, which no other fetch error produces; and when the
\* report is built every selected URL has its outcome.
C20_PerFetchTimeout ==
    /\ [](\A i \in Running : now - task[i].admittedAt <= 15)
    /\ [][\A i \in DOMAIN task :
            (/\ i \in DOMAIN task'
             /\ task[i].status = "running"
             /\ task'[i].status = "done"
             /\ NewOutcome.result = PageErr(ErrMsg("Timeout", "page fetch timed out after 15s")))
            => /\ now = task[i].admittedAt + 15
               /\ NewOutcome.url = urls[i]
               /\ \A j \in DOMAIN task : j # i => task'[j] = task[j]]_allVars
    /\ [](\A i \in DOMAIN fetch_outcomes :
            pages[fetch_outcomes[i].url] = PageHangs
            => fetch_outcomes[i].result.error.kind = "Timeout")
    /\ [](report.present =>
            /\ Len(fetch_outcomes) = Len(urls)
            /\ \A i \in DOMAIN report.failed_urls :
                  LET e == report.failed_urls[i]
                      o == CHOOSE o \in {fetch_outcomes[k] : k \in DOMAIN fetch_outcomes} :
                               o.url = e.url
                  IN  (e.reason[1] = "fetch timed out: {0}") <=> (o.result.error.kind = "Timeout"))

\* C20 witness: the sixth URL, admitted 15 s into the fan-out, timed out 15 s
\* later, after outcomes of both kinds had been recorded.
C20_Witness ==
    /\ report.present
    /\ now = 30
    /\ Len(report.failed_urls) >= 4
    /\ Len(report.fetched_pages) >= 1
    /\ \E i \in DOMAIN report.failed_urls :
          /\ report.failed_urls[i].url = WideUrls[6]
          /\ report.failed_urls[i].reason[1] = "fetch timed out: {0}"

(***************************************************************************)
(* The retry loop of GeminiClient::search.                                 *)
(***************************************************************************)

\* A rate-limit error or an API error with a code in 500..599.
TransientFailure(o) ==
    /\ ~o.ok
    /\ \/ o.error = RateLimited
       \/ (o.error.variant = "Api" /\ o.error.code \in 500..599)

\* C21: search makes at most 3 provider calls; every call but the last
\* failed with a rate-limit error or an API error with a code in 500..599;
\* search goes on only after such a failure and returns at once on a
\* success (with the result extracted from that response) and on an error
\* of any other class (with that error); a returned transient error is the
\* error of the third call.
C21_AtMostThreeProviderCalls ==
    /\ Len(attempts) <= 3
    /\ \A i \in 1..(Len(attempts) - 1) : TransientFailure(attempts[i])
    /\ (cpc \in {"call", "sleep"}) => \A i \in DOMAIN attempts : TransientFailure(attempts[i])
    /\ cpc = "call" => Len(attempts) < 3
    /\ cpc = "done" =>
          LET last == attempts[Len(attempts)]
          IN  /\ Len(attempts) >= 1
              /\ last.ok => /\ searched.ok
                            /\ searched.value.answer = last.response.answer
                            /\ \A k \in DOMAIN searched.value.sources :
                                  searched.value.sources[k].url # ""
              /\ ~last.ok => searched = SearchErr(last.error)
              /\ TransientFailure(last) => Len(attempts) = 3

\* C21 witness: three transient failures of different kinds, the third
\* returned.
C21_Witness ==
    /\ cpc = "done"
    /\ Len(attempts) = 3
    /\ attempts[1].error = RateLimited
    /\ attempts[2].error = Api(500)
    /\ attempts[3].error = Api(599)
    /\ searched = SearchErr(Api(599))

\* C22: the sleep after the n-th failed attempt is at least half of
\* 1000 * 2^(n-1) ms and at most that value; one sleep lies between two
\* consecutive calls and none follows the last call, so a call that ended
\* after k provider calls slept k - 1 times, at most twice.
C22_EqualJitterBackoff ==
    /\ \A n \in DOMAIN sleeps :
          /\ 2 * sleeps[n] >= 1000 * 2^(n - 1)
          /\ sleeps[n] <= 1000 * 2^(n - 1)
    /\ Len(sleeps) <= 2
    /\ cpc = "call" => Len(sleeps) = Len(attempts)
    /\ cpc \in {"sleep", "done"} => Len(sleeps) = Len(attempts) - 1

\* C22 witness: three calls, the first sleep at the top of its range and the
\* second at the bottom of its own.
C22_Witness ==
    /\ cpc = "done"
    /\ Len(attempts) = 3
    /\ sleeps = <<999, 1000>>

\* The results research is to aggregate, by launch index of their queries.
ResultsInLaunchOrder == [i \in DOMAIN SuccessfulSearches |-> SuccessfulSearches[i].value]

\* C23: the aggregation follows the order in which the searches were
\* launched, not the order in which they completed: once the searches are
\* joined, search_results, all_sources and the URLs selected are determined
\* by the request and by what the provider answers to each query, whatever
\* the order of completion was.
C23_AggregationInLaunchOrder ==
    rpc \in {"fetch", "done"} /\ returned.kind # "Err" =>
        /\ search_results = ResultsInLaunchOrder
        /\ all_sources = collect_unique_sources(ResultsInLaunchOrder)
        /\ urls = select_urls(collect_unique_sources(ResultsInLaunchOrder), request.depth)
        /\ report.present =>
              /\ report.search_results = ResultsInLaunchOrder
              /\ report.all_sources = collect_unique_sources(ResultsInLaunchOrder)

\* The second search completed first, both succeeded with different
\* results, and the report lists the result of the first query first.
C23_Witness ==
    /\ report.present
    /\ searchOrder = <<2, 1>>
    /\ provider = <<SearchOk(Result1), SearchOk(Result2)>>
    /\ report.search_results = <<Result1, Result2>>
    /\ urls[1] = URL_a

\* The searches that have completed, as launch indices.
CompletedSearches == {searchOrder[k] : k \in DOMAIN searchOrder}

\* What each phase of research has done and what it has not done yet.
PhaseState ==
    /\ rpc = "start" => queries = <<>> /\ search_outcomes = <<>> /\ searchOrder = <<>>
    /\ rpc # "start" =>
          /\ queries = expand(request)
          /\ DOMAIN search_outcomes = DOMAIN queries
          /\ Cardinality(CompletedSearches) = Len(searchOrder)
          /\ \A i \in DOMAIN search_outcomes :
                search_outcomes[i].done <=> i \in CompletedSearches
    /\ rpc \in {"start", "search"} =>
          /\ search_results = <<>> /\ all_sources = <<>> /\ urls = <<>>
          /\ task = <<>> /\ fetch_outcomes = <<>>
          /\ ~report.present /\ returned = ReturnPending
    /\ (rpc = "fetch" \/ SomeFetchStarted \/ report.present) =>
          /\ CompletedSearches = DOMAIN queries
          /\ returned.kind # "Err"
    /\ rpc = "fetch" => ~report.present
    /\ report.present =>
          /\ rpc = "done"
          /\ \A i \in DOMAIN urls : task[i].status = "done" /\ OutcomesFor(urls[i]) = 1
          /\ report.search_results = search_results
          /\ Len(report.search_results) = Len(SuccessfulSearches)
          /\ Len(report.fetched_pages)
                 = Cardinality({i \in DOMAIN fetch_outcomes : fetch_outcomes[i].result.ok})
          /\ Len(report.failed_urls)
                 = Cardinality({i \in DOMAIN fetch_outcomes : ~fetch_outcomes[i].result.ok})
          /\ report.all_sources = all_sources

\* The steps from phase to phase: expansion starts the searches, their
\* join leads to the fetches or to the error, the fetches to the report.
PhaseSteps ==
    {<<"start", "search">>, <<"search", "fetch">>, <<"search", "done">>,
     <<"fetch", "done">>}

\* C24: research passes its phases in the order Expand, Search,
\* Aggregate-or-Fail, Select-Sources, Fetch, Assemble.  One search is
\* dispatched per expanded query and completes once; nothing is aggregated
\* or selected and no fetch starts before every search has completed; the
\* report exists only when every selected URL has its one outcome, and it
\* then holds every successful search result, every fetched page, every
\* failed URL and the whole list of sources.
C24_PhasesInOrder ==
    /\ []PhaseState
    /\ [][rpc' # rpc => <<rpc, rpc'>> \in PhaseSteps]_allVars

\* Two queries, both searches succeeded, of three sources two were
\* selected, one page was fetched and one fetch failed, the report is built.
C24_Witness ==
    /\ report.present
    /\ Len(queries) = 2
    /\ Len(report.search_results) = 2
    /\ Len(report.all_sources) = 3
    /\ Len(urls) = 2
    /\ Len(report.fetched_pages) = 1
    /\ Len(report.failed_urls) = 1

\* U+3040..U+30FF (hiragana, katakana), U+3400..U+4DBF, U+4E00..U+9FFF.
IsJapaneseChar(c) ==
    \/ (12352 <= c /\ c <= 12543)
    \/ (13312 <= c /\ c <= 19903)
    \/ (19968 <= c /\ c <= 40959)

\* The characters a token is made of: ASCII letters, digits, '-', '.', '_'.
IsTokenChar(c) ==
    \/ (48 <= c /\ c <= 57)
    \/ (65 <= c /\ c <= 90)
    \/ (97 <= c /\ c <= 122)
    \/ c \in {45, 46, 95}

\* Where the tokens of q start; a token is a longest run of token characters.
TokenStarts(q) ==
    {i \in DOMAIN q : IsTokenChar(q[i]) /\ (i = 1 \/ ~IsTokenChar(q[i - 1]))}

TokenEnd(q, i) ==
    CHOOSE j \in i..Len(q) :
        /\ \A k \in i..j : IsTokenChar(q[k])
        /\ j = Len(q) \/ ~IsTokenChar(q[j + 1])

\* The starts of the tokens of two characters or more.
LongTokens(q) == {i \in TokenStarts(q) : TokenEnd(q, i) - i + 1 >= 2}

\* The tokens starting at the positions of starts, from left to right, with
\* one blank between two of them.
RECURSIVE SpaceJoined(_, _)
SpaceJoined(q, starts) ==
    IF starts = {} THEN <<>>
    ELSE LET i == CHOOSE k \in starts : \A j \in starts : k <= j
             rest == starts \ {i}
         IN  SubSeq(q, i, TokenEnd(q, i))
                 \o (IF rest = {} THEN <<>> ELSE <<32>> \o SpaceJoined(q, rest))

\* C25: under the automatic language mode the expansion gives one or two
\* queries, the first being the original unchanged; there is a second one
\* exactly when the query holds a hiragana, katakana or CJK ideograph
\* character and at least one ASCII token of two characters or more, and it
\* is those tokens joined by single blanks; "型安全 TypeScript" gives the
\* original and "TypeScript".
C25_BilingualExpansion ==
    (request.lang = "Auto" /\ rpc = "search") =>
        LET q == request.query
            japanese == \E i \in DOMAIN q : IsJapaneseChar(q[i])
        IN  /\ Len(queries) \in {1, 2}
            /\ queries[1] = q
            /\ Len(queries) = 2 <=> (japanese /\ LongTokens(q) # {})
            /\ Len(queries) = 2 => queries[2] = SpaceJoined(q, LongTokens(q))
            /\ Len(search_outcomes) = Len(queries)
            /\ q = Q_typesafe =>
                  queries = <<q, <<84, 121, 112, 101, 83, 99, 114, 105, 112, 116>>>>

\* "型安全 TypeScript" has been expanded into two queries.
C25_Witness ==
    /\ request.lang = "Auto"
    /\ request.query = Q_typesafe
    /\ rpc = "search"
    /\ Len(queries) = 2

\* C26: under the language mode ja or en research dispatches exactly one
\* search, for the original query followed by " (日本語で回答)" or by
\* " (answer in English)", whatever characters the query holds.
C26_FixedSuffixOneQuery ==
    (request.lang # "Auto" /\ rpc = "search") =>
        /\ Len(queries) = 1
        /\ Len(search_outcomes) = 1
        /\ request.lang = "Ja" =>
              queries[1] = request.query
                              \o <<32, 40, 26085, 26412, 35486, 12391, 22238, 31572, 41>>
        /\ request.lang = "En" =>
              queries[1] = request.query
                              \o <<32, 40, 97, 110, 115, 119, 101, 114, 32, 105, 110, 32,
                                   69, 110, 103, 108, 105, 115, 104, 41>>

\* A query with Japanese characters and an ASCII token, which the automatic
\* mode would expand into two, searched once under the mode ja.
C26_Witness ==
    /\ request.lang = "Ja"
    /\ request.query = Q_rust_nyumon
    /\ rpc = "search"
    /\ Len(search_outcomes) = 1

\* C27: whatever depth the caller of the research tool sends (none, 0, or
\* any value up to 255), the depth of the request handed to research lies
\* in 1..10: 3 when none was sent, 1 for 0, the value itself from 1 to 10,
\* 10 above; so at most 10 URLs are selected and at most 10 fetches are
\* queued, however many sources the searches name.
C27_DepthClampedAtTool ==
    rpc # "tool" =>
        /\ request.depth \in 1..10
        /\ ~params.depth.some => request.depth = 3
        /\ params.depth.some =>
              /\ params.depth.value = 0 => request.depth = 1
              /\ params.depth.value \in 1..10 => request.depth = params.depth.value
              /\ params.depth.value > 10 => request.depth = 10
        /\ Len(urls) <= 10
        /\ Len(task) <= 10
        /\ Len(fetch_outcomes) <= 10

\* The caller sent depth 255, the search named twelve sources, ten URLs
\* were selected.
C27_Witness ==
    /\ params.depth = Some(255)
    /\ rpc = "fetch"
    /\ Len(all_sources) = 12
    /\ Len(urls) = 10
    /\ Len(task) = 10

\* C28: the guard checks the final URL before any byte of the body is
\* streamed: a chunk has been read only when the second call of the guard
\* has returned, and nothing was read of a response whose final URL that
\* call blocks.
C28_FinalUrlCheckedBeforeBody ==
    /\ chunksRead > 0 => Len(guardLog) = 2
    /\ (Len(guardLog) = 2 /\ guardLog[2].verdict # Ok) => chunksRead = 0

\* The response declares more bytes than the cap.
DeclaresOverCap(resp) == resp.content_length # NoLength /\ resp.content_length > 10000000

\* The response carries a Content-Type that is ASCII and is not let through.
UnsupportedType(resp) ==
    resp.header = "ascii" /\ check_content_type(resp.content_type) # Ok

\* C29: download tests the response in a fixed order and the first test
\* that fails decides the error.  A status outside 200..299 gives
\* Status(code) whatever the headers are; otherwise an unsupported
\* Content-Type gives UnsupportedContentType also when the declared length
\* is over the cap; otherwise a declared length over the cap gives TooLarge;
\* no chunk of the body is read unless all three tests passed.
C29_ChecksInFixedOrder ==
    response # NoResponse =>
        LET success == response.status >= 200 /\ response.status <= 299
        IN  /\ ~success =>
                  /\ pc = "done"
                  /\ result = ErrMsg("Status", ToString(response.status))
                  /\ chunksRead = 0
            /\ (success /\ UnsupportedType(response)) =>
                  /\ pc = "done"
                  /\ result.kind = "UnsupportedContentType"
                  /\ chunksRead = 0
            /\ (success /\ ~UnsupportedType(response) /\ DeclaresOverCap(response)) =>
                  /\ pc = "done"
                  /\ result = Err("TooLarge")
                  /\ chunksRead = 0
            /\ (pc = "stream" \/ chunksRead > 0) =>
                  success /\ ~UnsupportedType(response) /\ ~DeclaresOverCap(response)

\* A 200 response of type application/pdf declaring 10,000,001 bytes was
\* rejected for its type, not for its length.
C29_Witness ==
    /\ response.status = 200
    /\ response.content_type = CT_application_pdf
    /\ response.content_length = 10000001
    /\ result = ErrMsg("UnsupportedContentType", "application/pdf")
    /\ pc = "done"

\* s without the blanks and tabs at its start.
RECURSIVE StripLeft(_)
StripLeft(s) ==
    IF s # <<>> /\ Head(s) \in {" ", "\t"} THEN StripLeft(Tail(s)) ELSE s

\* s without the blanks and tabs at its end.
RECURSIVE StripRight(_)
StripRight(s) ==
    IF s # <<>> /\ s[Len(s)] \in {" ", "\t"} THEN StripRight(SubSeq(s, 1, Len(s) - 1))
    ELSE s

\* The text of s before its first ';'.
RECURSIVE BeforeSemicolon(_)
BeforeSemicolon(s) ==
    IF s = <<>> \/ Head(s) = ";" THEN <<>> ELSE <<Head(s)>> \o BeforeSemicolon(Tail(s))

\* The MIME part of a Content-Type value.
MimePart(ct) == StripRight(StripLeft(BeforeSemicolon(ct)))

\* The MIME types the gate lets through.
SupportedMime(m) ==
    \/ m = <<>>
    \/ Len(m) >= 5 /\ SubSeq(m, 1, 5) = <<"t","e","x","t","/">>
    \/ m = <<"a","p","p","l","i","c","a","t","i","o","n","/","x","h","t","m","l","+","x","m","l">>
    \/ m = <<"a","p","p","l","i","c","a","t","i","o","n","/","x","m","l">>
    \/ m = <<"a","p","p","l","i","c","a","t","i","o","n","/","j","s","o","n">>

\* C30: the content-type gate lets a response through exactly when its
\* Content-Type header is absent, is not valid ASCII, or has a MIME part
\* (the text before the first ';', trimmed) that is empty, starts with
\* text/ or is application/xhtml+xml, application/xml or application/json;
\* every other response is rejected with UnsupportedContentType carrying
\* that MIME part, before any of its body is read.
C30_ContentTypeGate ==
    (response # NoResponse /\ response.status = 200 /\ ~DeclaresOverCap(response)) =>
        LET m == MimePart(response.content_type)
            accepted == response.header \in {"absent", "opaque"} \/ SupportedMime(m)
        IN  /\ accepted =>
                  /\ result.kind # "UnsupportedContentType"
                  /\ pc = "stream" \/ result.kind \in {"Http", "TooLarge"}
            /\ ~accepted =>
                  /\ pc = "done"
                  /\ result = ErrMsg("UnsupportedContentType", str_of(m))
                  /\ chunksRead = 0

\* " \tapplication/jsonx " was rejected as application/jsonx.
C30_Witness ==
    /\ response.content_type = <<" ", "\t">> \o <<"a","p","p","l","i","c","a","t","i","o","n","/","j","s","o","n","x">> \o <<" ">>
    /\ result = ErrMsg("UnsupportedContentType", "application/jsonx")
    /\ pc = "done"

\* The pieces of s between its blanks, empty pieces included; cur is the
\* piece being read.
RECURSIVE PiecesBetweenBlanks(_, _)
PiecesBetweenBlanks(s, cur) ==
    IF s = <<>> THEN {cur}
    ELSE IF Head(s) = 32 THEN {cur} \cup PiecesBetweenBlanks(Tail(s), <<>>)
    ELSE PiecesBetweenBlanks(Tail(s), Append(cur, Head(s)))

IsAsciiLetterOrDigit(c) ==
    \/ (48 <= c /\ c <= 57)
    \/ (65 <= c /\ c <= 90)
    \/ (97 <= c /\ c <= 122)

\* t occurs in q as a run of neighbouring characters.
OccursIn(t, q) ==
    \E i \in 1..(Len(q) - Len(t) + 1) : SubSeq(q, i, i + Len(t) - 1) = t

\* C31 as stated: every token of the second query of the automatic
\* expansion is made of ASCII letters and digits only and has at least two
\* characters.
C31_SecondQueryAlphanumericOnly ==
    (request.lang = "Auto" /\ rpc = "search" /\ Len(queries) = 2) =>
        \A t \in PiecesBetweenBlanks(queries[2], <<>>) :
            /\ Len(t) >= 2
            /\ \A k \in DOMAIN t : IsAsciiLetterOrDigit(t[k])

\* C31 amended: every token of the second query of the automatic expansion
\* is made of ASCII letters, digits, '-', '_' and '.' only, has at least two
\* characters and occurs in the original query.
C31_SecondQueryTokenCharsOnly ==
    (request.lang = "Auto" /\ rpc = "search" /\ Len(queries) = 2) =>
        \A t \in PiecesBetweenBlanks(queries[2], <<>>) :
            /\ Len(t) >= 2
            /\ \A k \in DOMAIN t : IsAsciiLetterOrDigit(t[k]) \/ t[k] \in {45, 46, 95}
            /\ OccursIn(t, request.query)

\* "a_b-c 入門 x 10" was expanded; its second query is "a_b-c 10".
C31_Witness ==
    /\ request.lang = "Auto"
    /\ request.query = Q_mixed
    /\ rpc = "search"
    /\ queries = <<Q_mixed, <<97, 95, 98, 45, 99, 32, 49, 48>>>>

\* C35: when every search of a session fails, research returns the error of
\* the search of the first expanded query (under the automatic mode the
\* original query), and that is the one error it logs, in whatever order
\* the searches failed.
C35_FirstLaunchedErrorReturned ==
    (rpc = "done" /\ \A i \in DOMAIN provider : ~provider[i].ok) =>
        /\ request.lang = "Auto" => queries[1] = request.query
        /\ returned = ReturnErr(provider[1].error)
        /\ search_log = <<provider[1].error>>

\* The search of the second query failed first, with RateLimited; research
\* returned the Api error of the first query.
C35_Witness ==
    /\ rpc = "done"
    /\ searchOrder = <<2, 1>>
    /\ provider = <<SearchErr(Api(500)), SearchErr(RateLimited)>>
    /\ returned = ReturnErr(Api(500))

\* C36: when the name of a URL that passes the static check resolves
\* successfully to no address at all, ssrf_check returns Ok: the guard
\* allows the URL although it has seen no address it could call public.
C36_EmptyResolutionAllowed ==
    \A c \in 1..Len(guardLog) :
        (/\ validate_url_sync(guardLog[c].url) = Ok
         /\ \E i \in LookupsOf(guardLog[c].call) :
               /\ dnsLookups[i].outcome.kind = "resolved"
               /\ dnsLookups[i].outcome.addrs = <<>>)
        => /\ guardLog[c].verdict = Ok
           /\ c = 1 => pc # "done" /\ result = Pending

\* http://example.com/ resolved to an empty list and the guard let it pass.
C36_Witness ==
    /\ url = UrlExample
    /\ Len(dnsLookups) = 1
    /\ dnsLookups[1].outcome = Resolved(<<>>)
    /\ Len(guardLog) = 1
    /\ guardLog[1].verdict = Ok
    /\ pc = "download"

\* When the fetch of URL u completed, as a position among the completions.
CompletedAt(u) == CHOOSE k \in DOMAIN fetch_outcomes : fetch_outcomes[k].url = u

\* The entries of list are in the order in which their fetches completed.
InCompletionOrder(list) ==
    \A a, b \in DOMAIN list : a < b => CompletedAt(list[a].url) < CompletedAt(list[b].url)

\* C37: fetched_pages and failed_urls list their entries in the order in
\* which the fetches completed, not in the order of the selected URLs: a
\* fetch that completes is recorded after all that completed before it,
\* the two lists of the report keep that order, and whatever the order,
\* every selected URL has exactly one entry.
C37_ReportInCompletionOrder ==
    /\ [][\A i \in DOMAIN task :
            (i \in DOMAIN task' /\ task[i].status = "running" /\ task'[i].status = "done")
            => /\ Len(fetch_outcomes') = Len(fetch_outcomes) + 1
               /\ SubSeq(fetch_outcomes', 1, Len(fetch_outcomes)) = fetch_outcomes
               /\ fetch_outcomes'[Len(fetch_outcomes')].url = urls[i]]_allVars
    /\ [](report.present =>
            /\ InCompletionOrder(report.fetched_pages)
            /\ InCompletionOrder(report.failed_urls)
            /\ \A j \in DOMAIN urls :
                  EntriesFor(report.fetched_pages, urls[j])
                      + EntriesFor(report.failed_urls, urls[j]) = 1)

\* Both selected pages were fetched, the second URL's first: fetched_pages
\* lists them in the reverse of the order of the URLs.
C37_Witness ==
    /\ report.present
    /\ urls = <<URL_a, URL_b>>
    /\ Len(report.fetched_pages) = 2
    /\ report.fetched_pages[1].url = URL_b
    /\ report.fetched_pages[2].url = URL_a


\* The errors the provider calls of the session have returned.
ProducedErrors == UNION {clients[i].produced : i \in DOMAIN clients}

\* C39: every error returned by a search and by research was returned by a
\* provider call of that search (of one of the searches): a search that has
\* returned has called the provider at least once, research has launched at
\* least one search for at least one query, and neither fallback value
\* stands in for an error no call produced.
C39_ReturnedErrorsWereProduced ==
    /\ rpc # "start" => (Len(queries) >= 1 /\ Len(clients) = Len(queries))
    /\ \A i \in DOMAIN clients :
          clients[i].cpc = "done" =>
              /\ clients[i].calls >= 1
              /\ ~clients[i].ret.ok => clients[i].ret.error \in clients[i].produced
    /\ returned.kind = "Err" => returned.error \in ProducedErrors

\* C39 witness: research returns the API error that ended the third attempt
\* of its first search; no call of that search was rate limited.
C39_Witness ==
    /\ rpc = "done"
    /\ returned = ReturnErr(Api(503))
    /\ clients[1].calls = 3
    /\ clients[1].produced = {Api(503)}
    /\ clients[1].ret = SearchErr(Api(503))

\* Provider calls made by the searches of the session.
ProviderCalls ==
    IF clients = <<>> THEN 0
    ELSE IF Len(clients) = 1 THEN clients[1].calls
    ELSE clients[1].calls + clients[2].calls

\* fetch_page calls made: the futures buffer_unordered has taken.
PageFetches == Cardinality({i \in DOMAIN task : task[i].status # "queued"})

Smaller(a, b) == IF a <= b THEN a ELSE b

BoundedWork ==
    /\ Len(queries) <= 2
    /\ \A i \in DOMAIN clients : clients[i].calls <= 3
    /\ ProviderCalls <= 6
    /\ PageFetches <= Smaller(request.depth, Len(all_sources))

\* C38: when every step that can be taken is eventually taken, research
\* returns a report or an error, and at no step has it made more than 6
\* provider calls (at most 2 queries with at most 3 attempts each) or
\* more page fetches than the smaller of depth and the number of sources.
C38_TerminatesWithBoundedWork ==
    /\ <>(rpc = "done" /\ returned.kind \in {"Ok", "Err"})
    /\ [][BoundedWork']_allVars

\* C38 witness: both searches succeed at their third attempt, two pages are
\* fetched and the report is returned.
C38_Witness ==
    /\ rpc = "done"
    /\ report.present
    /\ ProviderCalls = 6
    /\ PageFetches = 2


\* C33: every event logged on the fetch path that carries a URL carries it
\* without userinfo.
C33_LoggedUrlsCarryNoCredentials ==
    \A k \in DOMAIN log : log[k].url.userinfo = ""

\* The errors of the fetch path that state a policy.
PolicyErrors == {"InvalidScheme", "InvalidUrl", "InternalHost", "UnsupportedContentType"}

Retriable == " (retriable)"

\* C34: the fetch tool reports an error of fetch_page as invalid_params when
\* it is InvalidScheme, InvalidUrl, InternalHost or UnsupportedContentType
\* and as internal_error otherwise (its own timeout included), never with
\* the retriable marker; the research tool reports a rate-limit error as an
\* error with the retriable marker, a quota-exhausted error and a missing
\* key as invalid_params without it, and any other error as internal_error
\* without it.
C34_ErrorsKeepTheirClass ==
    /\ \A k \in PolicyErrors :
          /\ fetch_to_mcp_error(Err(k)).code = "invalid_params"
          /\ fetch_to_mcp_error(Err(k)).note # Retriable
    /\ (rpc = "idle" /\ tool_result.kind = "Err" /\ result.kind # "Pending") =>
          /\ tool_result.error = result
          /\ tool_result.note # Retriable
          /\ tool_result.code =
                 IF result.kind \in PolicyErrors THEN "invalid_params" ELSE "internal_error"
    /\ (rpc = "idle" /\ pc = "dropped") =>
          /\ tool_result.error.kind = "Timeout"
          /\ tool_result.code = "internal_error"
          /\ tool_result.note # Retriable
    /\ (rpc = "done" /\ tool_result.kind = "Err") =>
          /\ tool_result.error = returned.error
          /\ returned.error = RateLimited =>
                 (tool_result.code = "internal_error" /\ tool_result.note = Retriable)
          /\ returned.error = QuotaExhausted =>
                 (tool_result.code = "invalid_params" /\ tool_result.note # Retriable)
          /\ returned.error \notin {RateLimited, QuotaExhausted} =>
                 (tool_result.code = "internal_error" /\ tool_result.note # Retriable)
    /\ (rpc = "tool" /\ tool_result.kind = "Err" /\ params.query # <<>>) =>
          /\ tool_result.error = ApiKeyNotSet
          /\ tool_result.code = "invalid_params"
          /\ tool_result.note # Retriable

\* C34 witness: the fetch tool has reported a host refused after the lookup
\* as invalid_params.
C34_Witness ==
    /\ rpc = "idle"
    /\ url = UrlExample
    /\ result.kind = "InternalHost"
    /\ tool_result.kind = "Err"
    /\ tool_result.code = "invalid_params"
    /\ tool_result.note = ""


\* download has returned the decoded body.
Downloaded == html # NoHtml

\* The encoding the declared charset names, UTF-8 when none is declared or
\* the label is not recognised.
LabelEncoding ==
    IF charset.some /\ for_label(charset.value) # "" THEN for_label(charset.value)
    ELSE "UTF-8"

\* A sequence of Unicode scalar values.
IsText(t) ==
    \A i \in DOMAIN t : t[i] >= 0 /\ t[i] <= 1114111 /\ ~(t[i] >= 55296 /\ t[i] <= 57343)

\* The encoding whose byte order mark the bytes begin with, "" when they
\* begin with none.
MarkOf(b) ==
    IF starts_with(b, BOM_utf_8) THEN "UTF-8"
    ELSE IF starts_with(b, BOM_utf_16le) THEN "UTF-16LE"
    ELSE IF starts_with(b, BOM_utf_16be) THEN "UTF-16BE"
    ELSE ""

AfterMark(b) == SubSeq(b, IF MarkOf(b) = "UTF-8" THEN 4 ELSE 3, Len(b))

\* Decoding did not end the fetch and left at most its own warning.
DecodingNeverFails ==
    /\ result = Pending
    /\ pc = "check2"
    /\ IsText(decoded)
    /\ \A k \in DOMAIN log : log[k].level \in {"debug", "warn"}
    /\ (LabelEncoding = "UTF-8" /\ \E i \in DOMAIN content : content[i] >= 254) =>
          \E i \in DOMAIN decoded : decoded[i] = REPLACEMENT

\* C32 as stated: whatever the bytes and the declared charset, download
\* returns text; the text is the bytes decoded by the encoding the declared
\* label names, by UTF-8 when no label is declared or it is not recognised,
\* with malformed sequences replaced.
C32_DeclaredCharsetDecodes ==
    Downloaded =>
        /\ DecodingNeverFails
        /\ decoded = decode_without_bom_handling(LabelEncoding, content).text

\* C32 amended: as above, except that when the label names another
\* encoding than UTF-8 and the bytes begin with a UTF-8 or UTF-16 byte
\* order mark, the mark names the encoding and is left out of the text.
C32_DeclaredCharsetOrMarkDecodes ==
    Downloaded =>
        /\ DecodingNeverFails
        /\ decoded = IF LabelEncoding # "UTF-8" /\ MarkOf(content) # ""
                     THEN decode_without_bom_handling(MarkOf(content), AfterMark(content)).text
                     ELSE decode_without_bom_handling(LabelEncoding, content).text

\* C32 witness: a body declared windows-1252 that begins with the UTF-16LE
\* mark and ends in an odd byte is decoded as UTF-16LE, the odd byte
\* replaced and the warning logged.
C32_Witness ==
    /\ Downloaded
    /\ LabelEncoding = "windows-1252"
    /\ content = <<255, 254, 65>>
    /\ decoded = <<REPLACEMENT>>
    /\ log # <<>>
    /\ log[Len(log)].level = "warn"
    /\ result = Pending

====
